---- MODULE Spec2Model ----
(***************************************************************************)
(* State-machine model of the Messenger webhook (netlify/functions/        *)
(* webhook.ts, first revision and pending-post revision) and of the        *)
(* data-deletion webhook, together with the two MongoDB collections they   *)
(* share: incoming_messages and user_context.                              *)
(*                                                                         *)
(* One invocation runs at a time.  Every await of the handlers is a step   *)
(* of its own, so that a rejected promise (store, generation backend,      *)
(* Graph API) can be taken at the place where the code can see it.         *)
(* The messaging events of a batch are drawn when the loop reaches them:   *)
(* an event is an input that no earlier step can influence, so the set of  *)
(* batches is the same as if the whole body were drawn at once.            *)
(***************************************************************************)
EXTENDS Integers, Sequences, FiniteSets, TLC

\* ------------------------------------------------------------------ bounds
MaxBatch == 2      \* messaging events in one delivery
MaxStored == 2     \* documents kept in incoming_messages

\* ------------------------------------------------------------ JS values
Undefined == "<undefined>"
Truthy(v) == v # Undefined /\ v # ""

Senders == {"u1", "u2"}

\* process.env: a variable is either unset or holds its value
EnvNames == {"FB_VERIFY_TOKEN", "API_KEY", "FB_PAGE_ACCESS_TOKEN",
             "MONGODB_URI", "FB_PAGE_ID", "FB_APP_SECRET"}
EnvValue(n) == "value-of-" \o n
AllSet == [n \in EnvNames |-> EnvValue(n)]
\* the deployments considered: fully configured, or one variable left unset
Envs == {AllSet} \cup {[AllSet EXCEPT ![n] = Undefined] : n \in EnvNames}

\* ------------------------------------------------------- string helpers
LowerChar(c) ==
    CASE c = "A" -> "a" [] c = "B" -> "b" [] c = "C" -> "c" [] c = "D" -> "d" [] c = "E" -> "e"
      [] c = "F" -> "f" [] c = "G" -> "g" [] c = "H" -> "h" [] c = "I" -> "i" [] c = "J" -> "j"
      [] c = "K" -> "k" [] c = "L" -> "l" [] c = "M" -> "m" [] c = "N" -> "n" [] c = "O" -> "o"
      [] c = "P" -> "p" [] c = "Q" -> "q" [] c = "R" -> "r" [] c = "S" -> "s" [] c = "T" -> "t"
      [] c = "U" -> "u" [] c = "V" -> "v" [] c = "W" -> "w" [] c = "X" -> "x" [] c = "Y" -> "y"
      [] c = "Z" -> "z"
      [] OTHER -> c

RECURSIVE toLowerCase(_)
toLowerCase(s) ==
    IF Len(s) = 0 THEN ""
    ELSE LowerChar(SubSeq(s, 1, 1)) \o toLowerCase(SubSeq(s, 2, Len(s)))

includes(s, p) ==
    \E k \in 1..(Len(s) - Len(p) + 1) : SubSeq(s, k, k + Len(p) - 1) = p

startsWith(s, p) == Len(s) >= Len(p) /\ SubSeq(s, 1, Len(p)) = p

substring(s, from) == SubSeq(s, from + 1, Len(s))

RECURSIVE trimStart(_)
trimStart(s) ==
    IF Len(s) > 0 /\ SubSeq(s, 1, 1) = " " THEN trimStart(SubSeq(s, 2, Len(s)))
    ELSE s

RECURSIVE trimEnd(_)
trimEnd(s) ==
    IF Len(s) > 0 /\ SubSeq(s, Len(s), Len(s)) = " "
    THEN trimEnd(SubSeq(s, 1, Len(s) - 1))
    ELSE s

trim(s) == trimEnd(trimStart(s))

\* s.replace(/post|story|reel|daily/g, ''): scanning from the left, every
\* occurrence of one of the words is dropped
RECURSIVE replaceWords(_)
replaceWords(s) ==
    IF s = "" THEN ""
    ELSE IF startsWith(s, "post") THEN replaceWords(SubSeq(s, 5, Len(s)))
    ELSE IF startsWith(s, "story") THEN replaceWords(SubSeq(s, 6, Len(s)))
    ELSE IF startsWith(s, "reel") THEN replaceWords(SubSeq(s, 5, Len(s)))
    ELSE IF startsWith(s, "daily") THEN replaceWords(SubSeq(s, 6, Len(s)))
    ELSE SubSeq(s, 1, 1) \o replaceWords(SubSeq(s, 2, Len(s)))

\* ------------------------------------------------------------- inputs
\* Message texts a sender types.  QuickReplyTitle is the text Messenger
\* sends along with the CONFIRM_POST quick-reply payload (the button title).
QuickReplyTitle == "* Yes, Post It"
Texts == {"Yes, post it", "Post funny story", "Post sad story with voice",
          "Edit this image: add a hat", "Edit this image:  ", "hello", "post now",
          "Post now a funny story", "Post a sad inspirational story", "Daily Post"}

ImageAttachment == [type |-> "image", url |-> "http://x/img.jpg"]
FileAttachment == [type |-> "file", url |-> "http://x/doc.pdf"]

Event(s, t, q, a) ==
    [sender |-> s, text |-> t, quick_reply |-> q, attachments |-> a]

\* The first sender sends every shape of event; the second is there to show
\* that one sender's events leave the other's records alone, and sends only
\* a generation request and a confirmation.
Events ==
    {Event("u1", t, Undefined, <<>>) : t \in Texts \cup {Undefined}}
    \cup {Event("u1", QuickReplyTitle, "CONFIRM_POST", <<>>)}
    \cup {Event("u1", t, Undefined, <<ImageAttachment>>) :
            t \in {"Edit this image: add a hat", "Edit this image:  ",
                   "Edit this image: post a story", Undefined}}
    \cup {Event("u1", "Edit this image: add a hat", Undefined, <<FileAttachment>>)}
    \cup {Event("u2", t, Undefined, <<>>) : t \in {"Post funny story", "Yes, post it"}}

NoEvent == Event(Undefined, Undefined, Undefined, <<>>)

\* What the generation backend returns for a text call: a text, possibly empty
GenTexts == {"", "Story A"}
\* What it returns for an image-edit call: the inline image part, if any
EditedImages == {Undefined, "iVBORw0KGgo"}
\* Audio part of a TTS response, if any
AudioParts == {Undefined, "UklGRg"}

\* ------------------------------------------------- MongoDB collections
NoDoc == [none |-> TRUE]
NoPending == [absent |-> TRUE]
PendingPost(text, imageUrl) == [text |-> text, imageUrl |-> imageUrl]

Matches(coll, senderId) == {k \in 1..Len(coll) : coll[k].senderId = senderId}
FirstMatch(coll, senderId) ==
    CHOOSE k \in Matches(coll, senderId) : \A j \in Matches(coll, senderId) : k <= j

findOne(coll, senderId) ==
    IF Matches(coll, senderId) = {} THEN NoDoc ELSE coll[FirstMatch(coll, senderId)]

\* mutant: the upsert inserts a new document even when one matches
updateOneSetInserts(coll, senderId, pendingPost) ==
    Append(coll, [senderId |-> senderId, pendingPost |-> pendingPost])

\* mutant: a PendingPost that is already stored is kept (first write wins)
updateOneSetKeeps(coll, senderId, pendingPost) ==
    IF Matches(coll, senderId) = {}
    THEN Append(coll, [senderId |-> senderId, pendingPost |-> pendingPost])
    ELSE IF coll[FirstMatch(coll, senderId)].pendingPost # NoPending THEN coll
    ELSE [coll EXCEPT ![FirstMatch(coll, senderId)].pendingPost = pendingPost]

\* updateOne({ senderId }, { $set: { pendingPost } }, { upsert: true })
updateOneSet(coll, senderId, pendingPost) ==
    IF Matches(coll, senderId) = {}
    THEN Append(coll, [senderId |-> senderId, pendingPost |-> pendingPost])
    ELSE [coll EXCEPT ![FirstMatch(coll, senderId)].pendingPost = pendingPost]

\* updateOne({ senderId }, { $unset: { pendingPost: "" } })
updateOneUnset(coll, senderId) ==
    IF Matches(coll, senderId) = {} THEN coll
    ELSE [coll EXCEPT ![FirstMatch(coll, senderId)].pendingPost = NoPending]

\* deleteMany({ senderId: userId }) on incoming_messages, kept as a bag:
\* the number of stored documents of each sender id
deleteMany(msgs, userId) ==
    [s \in DOMAIN msgs |-> IF s = userId THEN 0 ELSE msgs[s]]

deletedCount(msgs, userId) == IF userId \in DOMAIN msgs THEN msgs[userId] ELSE 0

insertOne(msgs, senderId) == [msgs EXCEPT ![senderId] = @ + 1]

RECURSIVE SumOver(_, _)
SumOver(f, S) ==
    IF S = {} THEN 0
    ELSE LET x == CHOOSE y \in S : TRUE IN f[x] + SumOver(f, S \ {x})

StoredCount(msgs) == SumOver(msgs, DOMAIN msgs)

\* ------------------------------------------------ Publisher (Graph API)
\* A Graph API exchange: the fetch rejects, or it resolves with a status
\* and a JSON body that may carry an error object and an id.
GraphResponse(threw, ok, error, id) ==
    [threw |-> threw, ok |-> ok, error |-> error, id |-> id]

GraphResponses ==
    {GraphResponse(TRUE, FALSE, "fetch failed", Undefined),
     GraphResponse(FALSE, TRUE, Undefined, "post-1"),
     GraphResponse(FALSE, TRUE, "(#200) Permissions error", Undefined),
     GraphResponse(FALSE, FALSE, "(#100) Invalid parameter", Undefined),
     GraphResponse(FALSE, FALSE, Undefined, Undefined)}

PublishResult(success, postId, error) ==
    [success |-> success, postId |-> postId, error |-> error]

NoResult == [none |-> TRUE]

publishToFacebookPage(e, text, imageUrl, graph) ==
    IF ~Truthy(e["FB_PAGE_ACCESS_TOKEN"]) \/ ~Truthy(e["FB_PAGE_ID"])
    THEN PublishResult(FALSE, Undefined, "Facebook Page Access Token or ID missing.")
    ELSE IF graph.threw THEN PublishResult(FALSE, Undefined, graph.error)
    ELSE IF Truthy(graph.error) THEN PublishResult(FALSE, Undefined, graph.error)
    ELSE PublishResult(TRUE, graph.id, Undefined)

\* ------------------------------------------------- Messenger Send API
NoAttachment == [type |-> "none", url |-> Undefined]
MessageContent(text, attachment, quick_replies) ==
    [text |-> text, attachment |-> attachment, quick_replies |-> quick_replies]

ImageNote1 == "\n\n(Note: The edited image could not be sent directly in Messenger as it's a data URI. Please use the web app for a better experience.)"
VideoNote1 == "\n\n(Note: The generated video could not be sent directly in Messenger as it's a data URI. Please use the web app for a better experience.)"
AudioNote1 == "\n\n(Note: The generated audio could not be sent directly in Messenger as it's a data URI. Please use the web app for the full experience.)"
ImageNote2 == "\n\n(Image generated internally. Type 'Yes, post it' to publish content to Page)"

QuickReplies1 == <<"chat", "edit_image", "daily_post", "schedule_post">>
QuickReplies2 == <<"chat", "daily_post">>

\* first revision, lines 397-453
messageContent1(text, imageUrl, videoUrl, audioUrl, includeQuickReplies) ==
    LET base ==
          IF Truthy(imageUrl)
          THEN IF startsWith(imageUrl, "data:")
               THEN MessageContent(text \o ImageNote1, NoAttachment, <<>>)
               ELSE MessageContent(Undefined, [type |-> "image", url |-> imageUrl], <<>>)
          ELSE IF Truthy(videoUrl)
          THEN IF startsWith(videoUrl, "data:")
               THEN MessageContent(text \o VideoNote1, NoAttachment, <<>>)
               ELSE MessageContent(Undefined, [type |-> "video", url |-> videoUrl], <<>>)
          ELSE IF Truthy(audioUrl)
          THEN IF startsWith(audioUrl, "data:")
               THEN MessageContent(text \o AudioNote1, NoAttachment, <<>>)
               ELSE MessageContent(Undefined, [type |-> "audio", url |-> audioUrl], <<>>)
          ELSE MessageContent(text, NoAttachment, <<>>)
    IN  IF includeQuickReplies THEN [base EXCEPT !.quick_replies = QuickReplies1]
        ELSE base

\* mutant: the confirm shortcut is put after the other quick replies
messageContent2Appends(text, imageUrl, includeQuickReplies, offerPostConfirmation) ==
    LET base ==
          IF Truthy(imageUrl) /\ ~startsWith(imageUrl, "data:")
          THEN MessageContent(Undefined, [type |-> "image", url |-> imageUrl], <<>>)
          ELSE IF Truthy(imageUrl)
          THEN MessageContent(text \o ImageNote2, NoAttachment, <<>>)
          ELSE MessageContent(text, NoAttachment, <<>>)
    IN  IF includeQuickReplies
        THEN [base EXCEPT !.quick_replies =
                 IF offerPostConfirmation THEN QuickReplies2 \o <<"CONFIRM_POST">>
                 ELSE QuickReplies2]
        ELSE base

\* pending-post revision, lines 713-730
messageContent2(text, imageUrl, includeQuickReplies, offerPostConfirmation) ==
    LET base ==
          IF Truthy(imageUrl) /\ ~startsWith(imageUrl, "data:")
          THEN MessageContent(Undefined, [type |-> "image", url |-> imageUrl], <<>>)
          ELSE IF Truthy(imageUrl)
          THEN MessageContent(text \o ImageNote2, NoAttachment, <<>>)
          ELSE MessageContent(text, NoAttachment, <<>>)
    IN  IF includeQuickReplies
        THEN [base EXCEPT !.quick_replies =
                 IF offerPostConfirmation THEN <<"CONFIRM_POST">> \o QuickReplies2
                 ELSE QuickReplies2]
        ELSE base

\* How a call of the Send API can end: delivered, answered with an error
\* body, or the fetch rejects (network failure)
SendOutcomes == {"delivered", "api_error", "network_error"}

\* Does sendMessengerMessage throw?  The first revision wraps the fetch in
\* try/catch (lines 456-469); the pending-post revision awaits it bare
\* (lines 732-736).
sendThrows(r, outcome) == r = 2 /\ outcome = "network_error"

\* ------------------------------------------------ intent classification
\* mutant: every event is taken for a greeting
Intent1Greets(e) == "greeting"

\* first revision: the if/else chain of lines 165-343
Intent1(e) ==
    IF Truthy(e.text)
    THEN LET lowerCaseText == toLowerCase(e.text) IN
         IF includes(lowerCaseText, "post now") \/ includes(lowerCaseText, "publish this")
            \/ includes(lowerCaseText, "share this") \/ includes(lowerCaseText, "upload this")
            \/ includes(lowerCaseText, "make it live")
         THEN "post_now"
         ELSE IF includes(lowerCaseText, "post")
                 /\ (includes(lowerCaseText, "story") \/ includes(lowerCaseText, "reel")
                     \/ includes(lowerCaseText, "daily post")
                     \/ includes(lowerCaseText, "generate post"))
         THEN "daily_post"
         ELSE IF startsWith(lowerCaseText, "edit this image:") /\ Len(e.attachments) > 0
         THEN "edit_image"
         ELSE IF includes(lowerCaseText, "schedule post")
         THEN "schedule_help"
         ELSE IF lowerCaseText = "chat" THEN "chat_prompt"
         ELSE IF lowerCaseText = "daily post" THEN "daily_post_prompt"
         ELSE IF lowerCaseText = "edit image" THEN "edit_image_prompt"
         ELSE "chat"
    ELSE IF Len(e.attachments) > 0 THEN "attachment_only"
    ELSE "greeting"

\* pending-post revision: the if/else chain of lines 607-677
Intent2(e) ==
    LET lowerCaseText == IF e.text = Undefined THEN "" ELSE toLowerCase(e.text) IN
    IF lowerCaseText = "yes, post it" \/ e.quick_reply = "CONFIRM_POST"
    THEN "confirm_post"
    ELSE IF includes(lowerCaseText, "post")
            /\ (includes(lowerCaseText, "story") \/ includes(lowerCaseText, "reel")
                \/ includes(lowerCaseText, "daily post"))
    THEN "daily_post"
    ELSE IF startsWith(lowerCaseText, "edit this image:") /\ Len(e.attachments) > 0
    THEN "edit_image"
    ELSE "chat"

\* theme, type and TTS flag of a daily-post request (first revision, 179-207)
DailyPostThemes == <<"inspirational", "sad", "storytelling", "funny">>

ThemeOf(lowerCaseText) ==
    LET hits == {k \in 1..Len(DailyPostThemes) : includes(lowerCaseText, DailyPostThemes[k])}
    IN  IF hits = {} THEN "inspirational"
        ELSE DailyPostThemes[CHOOSE k \in hits : \A j \in hits : k <= j]

TypeOf(lowerCaseText) ==
    IF includes(lowerCaseText, "regular post") \/ includes(lowerCaseText, "detailed post")
       \/ includes(lowerCaseText, "long post")
    THEN "regular_post"
    ELSE "story_reel"

EnableTTS(lowerCaseText) ==
    includes(lowerCaseText, "with voice") \/ includes(lowerCaseText, "read aloud")

\* ------------------------------------------- signed_request verification
\* HMAC-SHA256 is taken as ideal: a digest is determined by, and determines,
\* the key and the message it was computed over.
Hmac(key, msg) == [key |-> key, msg |-> msg]

NullPayload == [null |-> TRUE]
Payload(user_id) == [user_id |-> user_id]

\* base64url texts of the payloads a request can carry, and what
\* Buffer.from(.., 'base64url').toString('utf8') followed by JSON.parse
\* makes of them (NullPayload: JSON.parse throws)
EncodedPayloads == {"eyJ1c2VyX2lkIjoidTEifQ", "eyJ1c2VyX2lkIjoidTIifQ",
                    "eyJhbGdvcml0aG0iOiJITUFDLVNIQTI1NiJ9", "eyJ1c2VyX2lkIjo"}

JSONparsePayload(encoded) ==
    CASE encoded = "eyJ1c2VyX2lkIjoidTEifQ" -> Payload("u1")
      [] encoded = "eyJ1c2VyX2lkIjoidTIifQ" -> Payload("u2")
      [] encoded = "eyJhbGdvcml0aG0iOiJITUFDLVNIQTI1NiJ9" -> Payload(Undefined)
      [] OTHER -> NullPayload

\* signed_request after split('.'): <<>> stands for a missing or empty one
SigningKeys == {EnvValue("FB_APP_SECRET"), "attacker-key"}
\* missing; one part only; signed with either key over its own payload; and
\* the app's signature of one payload in front of another payload
SignedRequests ==
    {<<>>, <<"eyJ1c2VyX2lkIjoidTEifQ">>}
    \cup {<<Hmac(k, p), p>> : k \in SigningKeys, p \in EncodedPayloads}
    \cup {<<Hmac(EnvValue("FB_APP_SECRET"), "eyJ1c2VyX2lkIjoidTIifQ"), "eyJ1c2VyX2lkIjoidTEifQ">>}

\* mutant: the signature is decoded but never compared
verifySignedRequestUnchecked(signedRequest, appSecret) ==
    IF signedRequest = <<>> \/ ~Truthy(appSecret) THEN NullPayload
    ELSE IF Len(signedRequest) # 2 THEN NullPayload
    ELSE JSONparsePayload(signedRequest[2])

verifySignedRequest(signedRequest, appSecret) ==
    IF signedRequest = <<>> \/ ~Truthy(appSecret) THEN NullPayload
    ELSE IF Len(signedRequest) # 2 THEN NullPayload
    ELSE IF signedRequest[1] # Hmac(appSecret, signedRequest[2]) THEN NullPayload
    ELSE JSONparsePayload(signedRequest[2])

\* ------------------------------------------------------ reply texts
\* (the longer texts are given by their opening sentences, the emoji of
\* the posted and failed texts are left out, and the confirmation code is
\* given without its Date.now() suffix)
Str(v) == IF v = Undefined THEN "undefined" ELSE v

PostNowText == "I understand you want to post this directly! However, as a Messenger bot, I'm designed to help you *create* content, not publish it directly"
ScheduleText == "The 'Schedule Post' feature is managed in the web application (your browser)."
ChatPromptText == "Okay, let's chat! What's on your mind or what kind of story would you like?"
DailyPromptText == "What kind of daily post would you like? Try 'Post funny story' or 'Generate a sad regular post with voice'."
EditPromptText == "Please send me an image with your editing request, for example: 'Edit this image: add a hat'."
AttachmentOnlyText == "I received an attachment! To edit an image, please use the format 'Edit this image: [your prompt]' and attach the image. Or choose an option below:"
GreetingText == "Hello! I'm your Gemini-powered social media assistant. How can I help you today?"
OopsText == "Oops! I received your message but could not process it."
AskEditPromptText == "Please tell me how you want to edit the image after 'edit this image:'."
NeedImageText == "To edit an image, please send an image attachment with your 'edit this image:' command."
NoEditedImageText == "No edited image part found in the Gemini response."
ApologyText1 == "Apologies, I encountered an internal error while processing your request. Please try again later."
ApologyText2 == "Sorry, I encountered an error."
PublishingText == "Publishing to your Page now..."
NothingPendingText == "I don't have any recent content stored to post. Try asking me to generate a story or edit an image first!"
PostedText(postId) == "Successfully posted to your Page! (Post ID: " \o Str(postId) \o ")"
FailedToPostText(error) == "Failed to post: " \o Str(error)

\* =================================================================== state
VARIABLES
    rev,                \* deployed webhook revision: 1 (first), 2 (pending-post)
    env,                \* process.env
    cachedDb,           \* module-level handle of webhook.ts
    cachedDbDeletion,   \* module-level handle of the data-deletion function
    incoming_messages,  \* collection: number of documents per senderId
    user_context,       \* collection: documents [senderId, pendingPost]
    pc,                 \* where the running invocation stands ("idle": none)
    req,                \* the request being served (or served last)
    response,           \* what the last finished invocation returned
    i,                  \* index of the messaging event being processed
    ev,                 \* the messaging event being processed
    L,                  \* the handler's locals for this event
    log,                \* side effects of the event being processed, in order
    order,              \* indices of the events that had side effects, in order
    failed,             \* has an event of this delivery reached its catch block
    lastWritten,        \* per sender: PendingPost this delivery stored last
    messages,           \* browser app: the messages its last send added
    connections,        \* per function: connections MongoClient.connect established
    call,               \* a function applied by itself: its arguments and result
    race,               \* two invocations running side by side on one store
    web                 \* browser app: its flags and the requests in flight

main == <<rev, env, cachedDb, cachedDbDeletion, incoming_messages, user_context,
          pc, req, response, i, ev, L, log, order, failed, lastWritten, messages,
          connections>>
\* what the functions' own specification leaves alone
aside == <<call, race, web>>
vars == <<main, aside>>

config == <<rev, env>>
store == <<incoming_messages, user_context>>
handles == <<cachedDb, cachedDbDeletion, connections>>
history == <<order, failed, lastWritten>>

Response(statusCode, body) == [outcome |-> "returned", statusCode |-> statusCode, body |-> body]
\* the handler's promise rejects: nothing is returned by the code
Rejected == [outcome |-> "rejected", statusCode |-> 0, body |-> Undefined]
NoResponse == [outcome |-> "none", statusCode |-> 0, body |-> Undefined]

NoRequest == [fn |-> "none"]

Locals(text) ==
    [intent |-> "none", botResponseText |-> text, botImageUrl |-> Undefined,
     botAudioUrl |-> Undefined, sendQuickReplies |-> FALSE,
     pendingPostPayload |-> NoPending, userContext |-> NoDoc, result |-> NoResult,
     editPrompt |-> Undefined, generatedText |-> Undefined]

Effect(kind, sender, text, image, quick, ok) ==
    [kind |-> kind, sender |-> sender, text |-> text, image |-> image,
     quick |-> quick, ok |-> ok]

\* record a side effect of the current event
Logged(entry) ==
    /\ log' = Append(log, entry)
    /\ order' = IF order # <<>> /\ order[Len(order)] = i THEN order ELSE Append(order, i)

\* a call of sendMessengerMessage: what was handed to the Send API, and
\* whether the call threw
Sent(content, outcome) ==
    Effect("send", ev.sender, content.text, content.attachment.url,
           content.quick_replies, IF sendThrows(rev, outcome) THEN "throws" ELSE "ok")

NoneWritten == [s \in Senders |-> NoPending]

\* the parts of the state the functions' specification does not use
NoCall == [fn |-> "none"]
NoRace == [on |-> FALSE]
NoWeb == [on |-> FALSE]

AtRest ==
    /\ cachedDb = FALSE
    /\ cachedDbDeletion = FALSE
    /\ incoming_messages = [s \in Senders |-> 0]
    /\ pc = "idle"
    /\ req = NoRequest
    /\ response = NoResponse
    /\ i = 0
    /\ ev = NoEvent
    /\ L = Locals("")
    /\ log = <<>>
    /\ order = <<>>
    /\ failed = FALSE
    /\ lastWritten = NoneWritten
    /\ messages = <<>>
    /\ connections = [webhook |-> 0, deletion |-> 0]

MainInit ==
    /\ rev \in {1, 2}
    /\ env \in Envs
    /\ user_context = <<>>
    /\ AtRest

Init ==
    /\ MainInit
    /\ call = NoCall
    /\ race = NoRace
    /\ web = NoWeb

\* the functions at rest, for the specifications of single parts
Quiet == MainInit /\ rev = 1 /\ env = AllSet

\* a new invocation starts with no history of its own
Fresh ==
    /\ i' = 0
    /\ ev' = NoEvent
    /\ L' = Locals("")
    /\ log' = <<>>
    /\ order' = <<>>
    /\ failed' = FALSE
    /\ lastWritten' = NoneWritten
    /\ messages' = <<>>
    /\ UNCHANGED aside

\* ======================================================== webhook handler
Modes == {Undefined, "subscribe", "unsubscribe"}
Tokens == {Undefined, EnvValue("FB_VERIFY_TOKEN"), "guess"}
Challenges == {Undefined, "123", "456"}
Query(mode, token, challenge) ==
    [mode |-> mode, verify_token |-> token, challenge |-> challenge]

\* the check at the top of the first revision's handler (lines 79-86);
\* the pending-post revision has none
verifyTokenMissing(r, e) == r = 1 /\ ~Truthy(e["FB_VERIFY_TOKEN"])

MissingTokenResponse == Response(500, "{message: FB_VERIFY_TOKEN is not configured.}")

\* mutant: a matching token is enough, whatever the mode
verifyWebhookAnyMode(e, query) ==
    IF query.verify_token = e["FB_VERIFY_TOKEN"]
    THEN Response(200, query.challenge)
    ELSE Response(403, "Forbidden")

\* GET: lines 88-105 and 565-572
verifyWebhook(e, query) ==
    IF query.mode = "subscribe" /\ query.verify_token = e["FB_VERIFY_TOKEN"]
    THEN Response(200, query.challenge)
    ELSE Response(403, "Forbidden")

WebhookGet ==
    /\ pc = "idle"
    /\ \E mode \in Modes, token \in Tokens, challenge \in Challenges :
         LET query == Query(mode, token, challenge) IN
         /\ req' = [fn |-> "webhook", method |-> "GET", query |-> query]
         /\ response' = IF verifyTokenMissing(rev, env) THEN MissingTokenResponse
                        ELSE verifyWebhook(env, query)
    /\ Fresh
    /\ UNCHANGED <<config, handles, store, pc>>

\* any other method: lines 368-370 and 700
WebhookOtherMethod ==
    /\ pc = "idle"
    /\ \E method \in {"PUT", "DELETE"} :
         req' = [fn |-> "webhook", method |-> method]
    /\ response' = IF verifyTokenMissing(rev, env) THEN MissingTokenResponse
                   ELSE Response(405, "Method Not Allowed")
    /\ Fresh
    /\ UNCHANGED <<config, handles, store, pc>>

\* POST bodies: text that JSON.parse rejects, or a JSON object with its
\* object field and the number n of messaging events it carries
Bodies ==
    {[parses |-> FALSE, object |-> Undefined, n |-> 0]}
    \cup {[parses |-> TRUE, object |-> o, n |-> 0] : o \in {Undefined, "user"}}
    \cup {[parses |-> TRUE, object |-> "page", n |-> n] : n \in 1..MaxBatch}

\* the bodies of the early exits, which differ between the revisions
\* (lines 113-116, 125, 365 and 577, 584, 698)
MissingEnvBody ==
    IF rev = 1 THEN "{message: Missing required environment variables for POST message handling.}"
    ELSE "{message: Missing env vars.}"
InvalidJsonBody == IF rev = 1 THEN "Invalid JSON payload" ELSE "Invalid JSON"
NotPageBody == IF rev = 1 THEN "Bad Request: Not a page object" ELSE "Bad Request"

\* mutant: a body that parses is taken for a page batch
postPreconditionAnyObject(e, body) ==
    IF ~Truthy(e["API_KEY"]) \/ ~Truthy(e["FB_PAGE_ACCESS_TOKEN"]) \/ ~Truthy(e["MONGODB_URI"])
    THEN Response(500, MissingEnvBody)
    ELSE IF ~body.parses THEN Response(400, InvalidJsonBody)
    ELSE NoResponse

\* the exits taken before the batch loop: lines 108-128, 364-365 and 575-587, 698
postPrecondition(e, body) ==
    IF ~Truthy(e["API_KEY"]) \/ ~Truthy(e["FB_PAGE_ACCESS_TOKEN"]) \/ ~Truthy(e["MONGODB_URI"])
    THEN Response(500, MissingEnvBody)
    ELSE IF ~body.parses THEN Response(400, InvalidJsonBody)
    ELSE IF body.object # "page" THEN Response(400, NotPageBody)
    ELSE NoResponse

WebhookPost ==
    /\ pc = "idle"
    /\ \E body \in Bodies :
         /\ rev = 1 => StoredCount(incoming_messages) + body.n <= MaxStored
         /\ req' = [fn |-> "webhook", method |-> "POST", body |-> body]
         /\ LET early == IF verifyTokenMissing(rev, env) THEN MissingTokenResponse
                         ELSE postPrecondition(env, body)
            IN  /\ response' = early
                /\ pc' = IF early # NoResponse THEN "idle"
                         ELSE IF rev = 1 THEN "loop" ELSE "connect"
    /\ Fresh
    /\ UNCHANGED <<config, handles, store>>

\* mutant: the cached handle is not looked at
connectToDatabaseUncached(cached, uri, connects) ==
    IF ~Truthy(uri) THEN [ok |-> FALSE, cached |-> cached, opened |-> FALSE]
    ELSE [ok |-> connects, cached |-> cached \/ connects, opened |-> connects]

\* connectToDatabase (lines 28-52, 490-509): the cached handle if there is
\* one, else one connection attempt that caches the handle when it succeeds
\* (opened: MongoClient.connect was called and resolved)
connectToDatabase(cached, uri, connects) ==
    IF cached THEN [ok |-> TRUE, cached |-> TRUE, opened |-> FALSE]
    ELSE IF ~Truthy(uri) THEN [ok |-> FALSE, cached |-> FALSE, opened |-> FALSE]
    ELSE [ok |-> connects, cached |-> connects, opened |-> connects]

\* the per-event try block is left for its catch
Caught ==
    /\ pc' = "catch"
    /\ failed' = TRUE

\* the handler is left: its locals are gone, what it did to the stores stays
Returned ==
    /\ ev' = NoEvent
    /\ L' = Locals("")
    /\ log' = <<>>
    /\ order' = <<>>
    /\ lastWritten' = NoneWritten

\* the batch loop takes the next messaging event (lines 129-139, 591-604)
StartEvent ==
    /\ pc = "loop"
    /\ i < req.body.n
    /\ i' = i + 1
    /\ ev' \in Events
    /\ L' = Locals(IF rev = 1 THEN OopsText ELSE "")
    /\ log' = <<>>
    /\ pc' = IF rev = 1 THEN "connect" ELSE "classify"
    /\ UNCHANGED <<aside, messages, config, handles, store, req, response, history>>

\* all events attempted (lines 361-362, 696)
Finish ==
    /\ pc = "loop"
    /\ i = req.body.n
    /\ response' = Response(200, "EVENT_RECEIVED")
    /\ pc' = "idle"
    /\ Returned
    /\ UNCHANGED <<aside, messages, config, handles, store, req, i, failed>>

\* await connectToDatabase(): inside the per-event try in the first revision
\* (line 143), before the loop and outside any try in the pending-post
\* revision (line 588)
Connect ==
    /\ pc = "connect"
    /\ \E connects \in BOOLEAN :
         LET c == connectToDatabase(cachedDb, env["MONGODB_URI"], connects) IN
         /\ cachedDb' = c.cached
         /\ connections' = [connections EXCEPT !.webhook = IF c.opened THEN @ + 1 ELSE @]
         /\ IF c.ok
            THEN /\ pc' = IF rev = 1 THEN "insert" ELSE "loop"
                 /\ UNCHANGED <<response, failed>>
            ELSE IF rev = 1
            THEN Caught /\ UNCHANGED response
            ELSE /\ pc' = "idle"
                 /\ response' = Rejected
                 /\ UNCHANGED failed
    /\ UNCHANGED <<aside, messages, config, cachedDbDeletion, store, req, i, ev, L, log, order, lastWritten>>

\* await incomingMessagesCollection.insertOne(..) (lines 148-155)
Insert ==
    /\ pc = "insert"
    /\ \E ok \in BOOLEAN :
         IF ok
         THEN /\ incoming_messages' = insertOne(incoming_messages, ev.sender)
              /\ Logged(Effect("insertOne", ev.sender, Str(ev.text), Undefined, <<>>, "ok"))
              /\ pc' = "classify"
              /\ UNCHANGED failed
         ELSE /\ Caught
              /\ UNCHANGED <<incoming_messages, log, order>>
    /\ UNCHANGED <<aside, messages, config, handles, user_context, req, response, i, ev, L, lastWritten>>

EditPromptOf(text) == trim(substring(text, 16))

\* the synchronous part of the intent chain, up to the branch's first await
Classify1 ==
    LET intent == Intent1(ev)
        canned(text) == [L EXCEPT !.intent = intent, !.botResponseText = text,
                                  !.sendQuickReplies = TRUE]
    IN
    CASE intent = "post_now" -> /\ L' = canned(PostNowText) /\ pc' = "sendReply"
      [] intent = "schedule_help" -> /\ L' = canned(ScheduleText) /\ pc' = "sendReply"
      [] intent = "chat_prompt" -> /\ L' = canned(ChatPromptText) /\ pc' = "sendReply"
      [] intent = "daily_post_prompt" -> /\ L' = canned(DailyPromptText) /\ pc' = "sendReply"
      [] intent = "edit_image_prompt" -> /\ L' = canned(EditPromptText) /\ pc' = "sendReply"
      [] intent = "attachment_only" -> /\ L' = canned(AttachmentOnlyText) /\ pc' = "sendReply"
      [] intent = "greeting" -> /\ L' = canned(GreetingText) /\ pc' = "sendReply"
      [] intent \in {"daily_post", "chat"} ->
            /\ L' = [L EXCEPT !.intent = intent]
            /\ pc' = "generate"
      [] intent = "edit_image" ->
            LET attachment == ev.attachments[1] IN
            IF attachment.type = "image" /\ Truthy(attachment.url)
            THEN IF EditPromptOf(ev.text) = ""
                 THEN /\ L' = canned(AskEditPromptText) /\ pc' = "sendReply"
                 ELSE /\ L' = [L EXCEPT !.intent = intent,
                                        !.editPrompt = EditPromptOf(ev.text),
                                        !.botResponseText =
                                            "Editing your image with prompt: \""
                                            \o EditPromptOf(ev.text)
                                            \o "\"... This might take a moment."]
                      /\ pc' = "fetchImage"
            ELSE /\ L' = canned(NeedImageText) /\ pc' = "sendReply"

Classify2 ==
    LET intent == Intent2(ev) IN
    CASE intent = "confirm_post" ->
            /\ L' = [L EXCEPT !.intent = intent]
            /\ pc' = "findOne"
      [] intent \in {"daily_post", "chat"} ->
            /\ L' = [L EXCEPT !.intent = intent]
            /\ pc' = "generate"
      [] intent = "edit_image" ->
            IF ev.attachments[1].type = "image"
            THEN /\ L' = [L EXCEPT !.intent = intent,
                                   !.editPrompt = EditPromptOf(ev.text),
                                   !.botResponseText =
                                       "Editing image with: \"" \o EditPromptOf(ev.text)
                                       \o "\"..."]
                 /\ pc' = "sendProgress"
            ELSE /\ L' = [L EXCEPT !.intent = intent, !.sendQuickReplies = TRUE]
                 /\ pc' = "sendReply"

Classify ==
    /\ pc = "classify"
    /\ IF rev = 1 THEN Classify1 ELSE Classify2
    /\ UNCHANGED <<aside, messages, config, handles, store, req, response, i, ev, log, history>>

\* where the pending-post revision goes after a branch: the store is written
\* only when the branch produced a pendingPostPayload (line 680)
AfterBranch(locals) ==
    IF locals.pendingPostPayload # NoPending THEN "updateContext" ELSE "sendReply"

OrElse(text, fallback) == IF Truthy(text) THEN text ELSE fallback

\* the prompts of the text-generation calls (lines 211-215, 328, 635, 673)
DailyPostPrompt1(theme, type) ==
    IF type = "story_reel"
    THEN "Generate a short " \o theme \o " themed story or inspirational message suitable for a social media reel/story. Keep it concise, around 100-150 words."
    ELSE "Generate a detailed " \o theme \o " themed story or message suitable for a regular social media post. Make it engaging and provide a clear narrative or insightful reflection, around 200-300 words."

ChatPrompt1(messageText) ==
    "The user said: \"" \o messageText \o "\". Respond in the style of a helpful social media assistant, suggesting creative post or story ideas, or offering to help with image/video generation based on their query. Keep your response concise."

DailyPostPrompt2(lowerCaseText) ==
    "Generate a " \o (IF includes(lowerCaseText, "funny") THEN "funny" ELSE "inspirational")
    \o " social media post about " \o OrElse(trim(replaceWords(lowerCaseText)), "life")
    \o ". Keep it under 200 words."

ChatPrompt2(messageText) ==
    "User said: \"" \o Str(messageText)
    \o "\". Respond as a helpful bot. If they want to create content, guide them."

promptOf(r, intent, e) ==
    LET lowerCaseText == IF e.text = Undefined THEN "" ELSE toLowerCase(e.text) IN
    IF r = 1
    THEN IF intent = "daily_post"
         THEN DailyPostPrompt1(ThemeOf(lowerCaseText), TypeOf(lowerCaseText))
         ELSE ChatPrompt1(e.text)
    ELSE IF intent = "daily_post" THEN DailyPostPrompt2(lowerCaseText)
         ELSE ChatPrompt2(e.text)

\* await ai.models.generateContent(..) of the daily-post and chat branches
\* (lines 219-225, 326-332, 637-644, 671-676)
Generate ==
    /\ pc = "generate"
    /\ \E outcome \in {"throws"} \cup GenTexts :
         /\ Logged(Effect("generateContent", ev.sender, promptOf(rev, L.intent, ev), Undefined, <<>>,
                          IF outcome = "throws" THEN "throws" ELSE "ok"))
         /\ IF outcome = "throws"
            THEN Caught /\ UNCHANGED L
            ELSE
              /\ UNCHANGED failed
              /\ IF rev = 1 /\ L.intent = "daily_post"
                 THEN LET lowerCaseText == toLowerCase(ev.text)
                          tts == EnableTTS(lowerCaseText) /\ Truthy(outcome)
                      IN
                      /\ L' = [L EXCEPT
                                 !.generatedText = outcome,
                                 !.botResponseText =
                                     "Daily Post (" \o ThemeOf(lowerCaseText) \o " - "
                                     \o (IF TypeOf(lowerCaseText) = "story_reel"
                                         THEN "story reel" ELSE "regular post")
                                     \o "):\n\n" \o OrElse(outcome, "Could not generate post."),
                                 !.sendQuickReplies = ~tts]
                      /\ pc' = IF tts THEN "tts" ELSE "sendReply"
                 ELSE IF rev = 1
                 THEN /\ L' = [L EXCEPT !.generatedText = outcome,
                                        !.botResponseText = OrElse(outcome, "How can I assist you?"),
                                        !.sendQuickReplies = TRUE]
                      /\ pc' = "sendReply"
                 ELSE IF L.intent = "daily_post"
                 THEN LET generatedText == OrElse(outcome, "Could not generate text.") IN
                      /\ L' = [L EXCEPT
                                 !.generatedText = generatedText,
                                 !.botResponseText =
                                     "Here is your generated post:\n\n" \o generatedText
                                     \o "\n\nDo you want me to publish this to your Facebook Page immediately?",
                                 !.pendingPostPayload = PendingPost(generatedText, Undefined),
                                 !.sendQuickReplies = TRUE]
                      /\ pc' = AfterBranch(L')
                 ELSE /\ L' = [L EXCEPT !.generatedText = outcome,
                                        !.botResponseText = OrElse(outcome, "How can I help?"),
                                        !.sendQuickReplies = TRUE]
                      /\ pc' = AfterBranch(L')
    /\ UNCHANGED <<aside, messages, config, handles, store, req, response, i, ev, lastWritten>>

\* the text-to-speech call of the first revision's daily post, in its own
\* try/catch (lines 227-254)
TTS ==
    /\ pc = "tts"
    /\ \E outcome \in {"throws"} \cup AudioParts :
         /\ Logged(Effect("generateSpeech", ev.sender, L.generatedText, Undefined, <<>>,
                          IF outcome = "throws" THEN "throws" ELSE "ok"))
         /\ L' = IF outcome = "throws"
                 THEN [L EXCEPT !.botResponseText = @ \o "\n\n(Note: Failed to generate audio: TTS error)",
                                !.sendQuickReplies = TRUE]
                 ELSE IF Truthy(outcome)
                 THEN [L EXCEPT !.botAudioUrl = "data:audio/wav;base64," \o outcome,
                                !.botResponseText = @ \o "\n\n(Note: Audio was generated with voice Zephyr but cannot be sent directly in Messenger. Please use the web app for the full experience.)",
                                !.sendQuickReplies = TRUE]
                 ELSE [L EXCEPT !.botResponseText = @ \o "\n\n(Note: Could not generate audio for this post.)",
                                !.sendQuickReplies = TRUE]
    /\ pc' = "sendReply"
    /\ UNCHANGED <<aside, messages, config, handles, store, req, response, i, ev, failed, lastWritten>>

FailedToEditText == "Failed to edit image: image edit error"

\* await fetchAndBase64Encode(..) (lines 268, 653): the first revision
\* catches a failure inside the branch, the pending-post revision does not
FetchImage ==
    /\ pc = "fetchImage"
    /\ \E ok \in BOOLEAN :
         /\ Logged(Effect("fetchImage", ev.sender, ev.attachments[1].url, Undefined, <<>>,
                          IF ok THEN "ok" ELSE "throws"))
         /\ IF ok
            THEN /\ pc' = "editGenerate"
                 /\ UNCHANGED <<L, failed>>
            ELSE IF rev = 1
            THEN /\ L' = [L EXCEPT !.botResponseText = FailedToEditText,
                                   !.sendQuickReplies = TRUE]
                 /\ pc' = "sendReply"
                 /\ UNCHANGED failed
            ELSE Caught /\ UNCHANGED L
    /\ UNCHANGED <<aside, messages, config, handles, store, req, response, i, ev, lastWritten>>

\* the image-edit call and the scan of its parts (lines 270-297, 654-666)
EditGenerate ==
    /\ pc = "editGenerate"
    /\ \E outcome \in {"throws"} \cup EditedImages :
         /\ Logged(Effect("editImage", ev.sender, L.editPrompt, Undefined, <<>>,
                          IF outcome = "throws" THEN "throws" ELSE "ok"))
         /\ IF outcome = "throws"
            THEN IF rev = 1
                 THEN /\ L' = [L EXCEPT !.botResponseText = FailedToEditText,
                                        !.sendQuickReplies = TRUE]
                      /\ pc' = "sendReply"
                      /\ UNCHANGED failed
                 ELSE Caught /\ UNCHANGED L
            ELSE
              LET botImageUrl == "data:image/png;base64," \o outcome IN
              /\ UNCHANGED failed
              /\ L' = IF ~Truthy(outcome)
                      THEN [L EXCEPT !.botResponseText =
                                         IF rev = 1 THEN NoEditedImageText ELSE @,
                                     !.sendQuickReplies = TRUE]
                      ELSE IF rev = 1
                      THEN [L EXCEPT !.botImageUrl = botImageUrl,
                                     !.botResponseText =
                                         "Here is your edited image for \"" \o L.editPrompt \o "\":",
                                     !.sendQuickReplies = TRUE]
                      ELSE [L EXCEPT !.botImageUrl = botImageUrl,
                                     !.botResponseText = "Here is your edited image. Want to post it?",
                                     !.pendingPostPayload =
                                         PendingPost("Edited image: " \o L.editPrompt, botImageUrl),
                                     !.sendQuickReplies = TRUE]
              /\ pc' = IF rev = 1 THEN "sendReply" ELSE AfterBranch(L')
    /\ UNCHANGED <<aside, messages, config, handles, store, req, response, i, ev, lastWritten>>

\* ------------------------------------- post confirmation (lines 609-630)
pendingPostOf(doc) == IF doc = NoDoc THEN NoPending ELSE doc.pendingPost

\* await userContextCollection.findOne({ senderId }) (lines 611-613, 626-628)
FindOne ==
    /\ pc = "findOne"
    /\ \E ok \in BOOLEAN :
         IF ok
         THEN LET userContext == findOne(user_context, ev.sender) IN
              /\ Logged(Effect("findOne", ev.sender, Undefined, Undefined, <<>>, "ok"))
              /\ UNCHANGED failed
              /\ IF pendingPostOf(userContext) # NoPending
                 THEN /\ L' = [L EXCEPT !.userContext = userContext,
                                        !.botResponseText = PublishingText]
                      /\ pc' = "sendProgress"
                 ELSE /\ L' = [L EXCEPT !.userContext = userContext,
                                        !.botResponseText = NothingPendingText,
                                        !.sendQuickReplies = TRUE]
                      /\ pc' = AfterBranch(L')
         ELSE /\ Caught
              /\ UNCHANGED <<L, log, order>>
    /\ UNCHANGED <<aside, messages, config, handles, store, req, response, i, ev, lastWritten>>

\* the interim sendMessengerMessage of the confirm and edit branches
\* (lines 615, 651), sent without quick replies
SendProgress ==
    /\ pc = "sendProgress"
    /\ \E outcome \in SendOutcomes :
         /\ Logged(Sent(messageContent2(L.botResponseText, Undefined, FALSE, FALSE), outcome))
         /\ IF sendThrows(rev, outcome)
            THEN Caught
            ELSE /\ pc' = IF L.intent = "confirm_post" THEN "publish" ELSE "fetchImage"
                 /\ UNCHANGED failed
    /\ UNCHANGED <<aside, messages, config, handles, store, req, response, i, ev, L, lastWritten>>

\* mutant: the PendingPost is cleared whatever publish reported
clearsPendingPostAlways(result) == TRUE

\* the PendingPost is cleared exactly when publish reported success (line 619)
clearsPendingPost(result) == result.success

\* await publishToFacebookPage(..) and the branch on its result (lines 617-625)
Publish ==
    /\ pc = "publish"
    /\ \E graph \in GraphResponses :
         LET pendingPost == pendingPostOf(L.userContext)
             result == publishToFacebookPage(env, pendingPost.text, pendingPost.imageUrl, graph)
         IN
         /\ Logged(Effect("publish", ev.sender, pendingPost.text, pendingPost.imageUrl, <<>>,
                          IF result.success THEN "success" ELSE "failure"))
         /\ IF clearsPendingPost(result)
            THEN /\ L' = [L EXCEPT !.result = result,
                                   !.botResponseText = PostedText(result.postId)]
                 /\ pc' = "unset"
            ELSE /\ L' = [L EXCEPT !.result = result,
                                   !.botResponseText = FailedToPostText(result.error),
                                   !.sendQuickReplies = TRUE]
                 /\ pc' = AfterBranch(L')
    /\ UNCHANGED <<aside, messages, config, handles, store, req, response, i, ev, failed, lastWritten>>

\* await updateOne({ senderId }, { $unset: { pendingPost: "" } }) (line 622)
Unset ==
    /\ pc = "unset"
    /\ \E ok \in BOOLEAN :
         IF ok
         THEN /\ user_context' = updateOneUnset(user_context, ev.sender)
              /\ Logged(Effect("unsetPending", ev.sender, Undefined, Undefined, <<>>, "ok"))
              /\ L' = [L EXCEPT !.sendQuickReplies = TRUE]
              /\ pc' = AfterBranch(L')
              /\ UNCHANGED failed
         ELSE /\ Caught
              /\ UNCHANGED <<user_context, L, log, order>>
    /\ UNCHANGED <<aside, messages, config, handles, incoming_messages, req, response, i, ev, lastWritten>>

\* await updateOne({ senderId }, { $set: { pendingPost } }, { upsert: true })
\* (lines 680-686)
UpdateContext ==
    /\ pc = "updateContext"
    /\ \E ok \in BOOLEAN :
         IF ok
         THEN /\ user_context' = updateOneSet(user_context, ev.sender, L.pendingPostPayload)
              /\ lastWritten' = [lastWritten EXCEPT ![ev.sender] = L.pendingPostPayload]
              /\ Logged(Effect("setPending", ev.sender, L.pendingPostPayload.text,
                               L.pendingPostPayload.imageUrl, <<>>,
                               IF pendingPostOf(findOne(user_context, ev.sender)) # NoPending
                               THEN "replaced" ELSE "created"))
              /\ pc' = "sendReply"
              /\ UNCHANGED failed
         ELSE /\ Caught
              /\ UNCHANGED <<user_context, lastWritten, log, order>>
    /\ UNCHANGED <<aside, messages, config, handles, incoming_messages, req, response, i, ev, L>>

\* the reply of the event (lines 347, 688)
replyContent(r, locals) ==
    IF r = 1
    THEN messageContent1(locals.botResponseText, locals.botImageUrl, Undefined,
                         locals.botAudioUrl, locals.sendQuickReplies)
    ELSE messageContent2(locals.botResponseText, locals.botImageUrl,
                         locals.sendQuickReplies, locals.pendingPostPayload # NoPending)

SendReply ==
    /\ pc = "sendReply"
    /\ \E outcome \in SendOutcomes :
         /\ Logged(Sent(replyContent(rev, L), outcome))
         /\ IF sendThrows(rev, outcome)
            THEN Caught
            ELSE /\ pc' = "loop"
                 /\ UNCHANGED failed
    /\ UNCHANGED <<aside, messages, config, handles, store, req, response, i, ev, L, lastWritten>>

\* mutant: the catch block sends a message without the apology text
apologyContentEmpty(r) ==
    IF r = 1 THEN messageContent1("", Undefined, Undefined, Undefined, TRUE)
    ELSE messageContent2("", Undefined, FALSE, FALSE)

\* the apology of the per-event catch (lines 350-358, 690-693)
apologyContent(r) ==
    IF r = 1 THEN messageContent1(ApologyText1, Undefined, Undefined, Undefined, TRUE)
    ELSE messageContent2(ApologyText2, Undefined, FALSE, FALSE)

Catch ==
    /\ pc = "catch"
    /\ \E outcome \in SendOutcomes :
         IF sendThrows(rev, outcome)
         THEN \* the rejection leaves the handler: no later event is reached
              /\ pc' = "idle"
              /\ response' = Rejected
              /\ Returned
         ELSE /\ Logged(Sent(apologyContent(rev), outcome))
              /\ pc' = "loop"
              /\ UNCHANGED <<response, ev, L, lastWritten>>
    /\ UNCHANGED <<aside, messages, config, handles, store, req, i, failed>>

\* ================================================== data-deletion handler
DeletionBodies ==
    {[parses |-> FALSE, signed_request |-> <<>>]}
    \cup {[parses |-> TRUE, signed_request |-> sr] : sr \in SignedRequests}

\* the whole handler (lines 90-168); connects and deletes say whether the
\* store calls it reaches succeed
dataDeletion(e, method, body, cached, connects, deletes, msgs) ==
    LET decoded == verifySignedRequest(body.signed_request, e["FB_APP_SECRET"])
        c == connectToDatabase(cached, e["MONGODB_URI"], connects)
        keep(r) == [response |-> r, cached |-> cached, opened |-> FALSE, msgs |-> msgs,
                    deleted |-> <<>>]
    IN
    IF method # "POST" THEN keep(Response(405, "Method Not Allowed"))
    ELSE IF ~Truthy(e["FB_APP_SECRET"])
    THEN keep(Response(500, "{message: FB_APP_SECRET is not configured.}"))
    ELSE IF ~Truthy(e["MONGODB_URI"])
    THEN keep(Response(500, "{message: MONGODB_URI is not configured.}"))
    ELSE IF ~body.parses THEN keep(Response(400, "Invalid JSON payload"))
    ELSE IF body.signed_request = <<>> THEN keep(Response(400, "Missing signed_request"))
    ELSE IF decoded = NullPayload \/ ~Truthy(decoded.user_id)
    THEN keep(Response(403, "Invalid signed_request"))
    ELSE IF ~c.ok
    THEN [response |-> Response(500, "{message: Internal server error during data deletion}"),
          cached |-> c.cached, opened |-> c.opened, msgs |-> msgs, deleted |-> <<>>]
    ELSE IF ~deletes
    THEN [response |-> Response(500, "{message: Internal server error during data deletion}"),
          cached |-> c.cached, opened |-> c.opened, msgs |-> msgs, deleted |-> <<>>]
    ELSE [response |-> Response(200, "{url, confirmation_code: deleted-" \o decoded.user_id \o "}"),
          cached |-> c.cached, opened |-> c.opened,
          msgs |-> deleteMany(msgs, decoded.user_id),
          deleted |-> <<Effect("deleteMany", decoded.user_id, Undefined, Undefined, <<>>,
                               IF deletedCount(msgs, decoded.user_id) > 0
                               THEN "deleted some" ELSE "deleted none")>>]

DataDeletion ==
    /\ pc = "idle"
    /\ \E method \in {"POST", "GET"}, body \in DeletionBodies,
          connects \in BOOLEAN, deletes \in BOOLEAN :
         LET d == dataDeletion(env, method, body, cachedDbDeletion, connects, deletes,
                               incoming_messages)
         IN
         /\ req' = [fn |-> "deletion", method |-> method, body |-> body]
         /\ response' = d.response
         /\ cachedDbDeletion' = d.cached
         /\ connections' = [connections EXCEPT !.deletion = IF d.opened THEN @ + 1 ELSE @]
         /\ incoming_messages' = d.msgs
         /\ log' = d.deleted
    /\ i' = 0
    /\ ev' = NoEvent
    /\ L' = Locals("")
    /\ order' = <<>>
    /\ failed' = FALSE
    /\ lastWritten' = NoneWritten
    /\ messages' = <<>>
    /\ UNCHANGED <<aside, config, cachedDb, user_context, pc>>

\* ============================================================ browser app
\* The single-page app keeps its messages in the browser and talks to the
\* generation backend directly; it shares no state with the functions above,
\* so one send is taken as one step, and, as it commutes with every step of
\* the functions, it is taken before their first invocation only.
Message(content, audioUrl, imageUrl, error) ==
    [role |-> "bot", content |-> content, audioUrl |-> audioUrl,
     imageUrl |-> imageUrl, error |-> error]

AppThemes == {"inspirational", "sad"}
\* texts the backend returns to the app: none, a story, a story with a song
AppGenTexts == GenTexts \cup {"Story B. Song Suggestion: Hey Jude by The Beatles"}

\* generateTextContent (geminiService, lines 57-132): the text call, then
\* the speech call in a try/catch of its own that only warns
generateTextContent(enableTTS, gen, tts) ==
    IF gen = "throws"
    THEN [threw |-> TRUE, error |-> "Failed to generate content: Unknown error",
          text |-> Undefined, audioUrl |-> Undefined, ttsCalled |-> FALSE]
    ELSE LET text == OrElse(gen, "No text generated.") IN
         [threw |-> FALSE, error |-> Undefined, text |-> text,
          audioUrl |-> IF enableTTS /\ Truthy(text) /\ tts # "throws" /\ Truthy(tts)
                       THEN "blob:" \o tts ELSE Undefined,
          ttsCalled |-> enableTTS /\ Truthy(text)]

\* generateImageFromText (lines 168-193): the first inline part, or a throw
generateImageFromText(img) ==
    IF img = "throws" \/ ~Truthy(img)
    THEN [threw |-> TRUE, error |-> "Failed to generate image: No image generated.",
          url |-> Undefined]
    ELSE [threw |-> FALSE, error |-> Undefined, url |-> "data:image/png;base64," \o img]

\* s.substring(0, end)
substringTo(s, end) == SubSeq(s, 1, IF Len(s) < end THEN Len(s) ELSE end)

\* position of the first match of /Song Suggestion: (.+)/i in s, 0 if none
songMatch(s) ==
    LET p == "song suggestion: "
        lower == toLowerCase(s)
        hits == {k \in 1..(Len(s) - Len(p)) : SubSeq(lower, k, k + Len(p) - 1) = p}
    IN  IF hits = {} THEN 0 ELSE CHOOSE k \in hits : \A j \in hits : k <= j

SorryMessage(error) == Message("Sorry, something went wrong.", Undefined, Undefined, error)
PostNowMessages(generated) ==
    <<Message("Simulating 'Post Now' for your content...", Undefined, Undefined, Undefined),
      Message("Simulated 'Post Now' successful! Here's your content, ready for you to share manually on social media:", Undefined, Undefined, Undefined),
      generated>>
Note(content) == <<Message(content, Undefined, Undefined, Undefined)>>
Call(kind, text, ok) ==
    Effect(kind, "browser", text, Undefined, <<>>, IF ok THEN "ok" ELSE "throws")

\* handleSendMessage, case DAILY_POST (App.tsx 263-306) with what follows
\* the switch (360-377): the messages added and the backend calls made
dailyPost(type, theme, enableDailyPostTTS, gen, tts, img) ==
    LET story == type = "story_reel"
        t == generateTextContent(story \/ enableDailyPostTTS, gen, tts)
        im == generateImageFromText(img)
        started == Note(IF story
                        THEN "Generating your " \o theme \o " Reel/Story... (Creating text, voice, and visuals)"
                        ELSE "Generating your detailed Daily Post (" \o theme \o ")...")
        textCalls == <<Call("generateContent", theme, ~t.threw)>>
                     \o (IF t.ttsCalled THEN <<Call("generateSpeech", t.text, tts # "throws")>>
                         ELSE <<>>)
    IN
    IF t.threw
    THEN [messages |-> started \o <<SorryMessage(t.error)>>, calls |-> textCalls]
    ELSE IF ~story
    THEN [messages |-> started \o PostNowMessages(
                          Message("Daily Post (" \o theme \o "):\n\n" \o t.text,
                                  t.audioUrl, Undefined, Undefined)),
          calls |-> textCalls]
    ELSE LET written == started \o Note("...Writing complete. Now generating a vertical visual for your story...")
             calls == textCalls \o <<Call("generateImage", substringTo(t.text, 150), ~im.threw)>>
         IN
         IF im.threw
         THEN [messages |-> written \o <<SorryMessage(im.error)>>, calls |-> calls]
         ELSE [messages |-> written \o PostNowMessages(
                               Message("Reel Generated (" \o theme \o "):\n\n" \o t.text,
                                       t.audioUrl, im.url, Undefined)),
               calls |-> calls]

\* handleSendMessage, case CREATE_STORY (App.tsx 307-357, 360-377)
createStory(theme, gen, tts, img) ==
    LET t == generateTextContent(TRUE, gen, tts)
        im == generateImageFromText(img)
        text == OrElse(t.text, "Could not generate story.")
        at == songMatch(text)
        songSuggestion == IF at = 0 THEN "" ELSE SubSeq(text, at + 17, Len(text))
        storyText == IF at = 0 THEN text ELSE trim(SubSeq(text, 1, at - 1))
        finalContent == "Story (" \o theme \o "):\n\n" \o storyText
                        \o (IF songSuggestion # ""
                            THEN "\n\n" \o songSuggestion \o " (For inspiration, not playable audio)"
                            ELSE "")
        started == Note("Creating a " \o theme \o " story for you (Text, Audio, & Visual)...")
        textCalls == <<Call("generateContent", theme, ~t.threw)>>
                     \o (IF t.ttsCalled THEN <<Call("generateSpeech", t.text, tts # "throws")>>
                         ELSE <<>>)
    IN
    IF t.threw
    THEN [messages |-> started \o <<SorryMessage(t.error)>>, calls |-> textCalls]
    ELSE LET written == started \o Note("...Story generated. Creating a matching vertical image...")
             calls == textCalls \o <<Call("generateImage", substringTo(storyText, 100), ~im.threw)>>
         IN
         IF im.threw
         THEN [messages |-> written \o <<SorryMessage(im.error)>>, calls |-> calls]
         ELSE [messages |-> written \o PostNowMessages(
                               Message(finalContent, t.audioUrl, im.url, Undefined)),
               calls |-> calls]

\* handleSendMessage, case CREATE_STORY of the two earlier revisions of the
\* app (part_003 370-422 and 1721-1773): text and optional speech, no image.
\* The first passes enableSongSuggestion where the later one passes
\* enableStoryTTS as generateTextContent's enableTTS argument.
createStoryEarlier(appRev, theme, enableStoryTTS, enableSongSuggestion, gen, tts) ==
    LET t == generateTextContent(IF appRev = "first" THEN enableSongSuggestion
                                 ELSE enableStoryTTS, gen, tts)
        text == OrElse(t.text, "Could not generate story.")
        at == songMatch(text)
        songSuggestion == IF at = 0 THEN "" ELSE SubSeq(text, at + 17, Len(text))
        storyText == IF at = 0 THEN text ELSE trim(SubSeq(text, 1, at - 1))
        finalContent == "Story (" \o theme \o "):\n\n" \o storyText
                        \o (IF songSuggestion # ""
                            THEN "\n\n" \o songSuggestion \o " (For inspiration, not playable audio)"
                            ELSE "")
        started == Note("Creating a " \o theme \o " story for you "
                        \o (IF enableStoryTTS THEN "(with voice and a longer narrative)"
                            ELSE "(concise and rich)") \o "...")
        textCalls == <<Call("generateContent", theme, ~t.threw)>>
                     \o (IF t.ttsCalled THEN <<Call("generateSpeech", t.text, tts # "throws")>>
                         ELSE <<>>)
    IN
    IF t.threw
    THEN [messages |-> started \o <<SorryMessage(t.error)>>, calls |-> textCalls]
    ELSE [messages |-> started \o PostNowMessages(
                          Message(finalContent, t.audioUrl, Undefined, Undefined)),
          calls |-> textCalls]

\* the revisions of the app: part_003 171-898, part_003 1428-2322, App.tsx
AppRevs == {"first", "later", "current"}

\* what a send depends on: the revision, the controls of the page (App.tsx
\* 19-40) and what the backend answers.  The daily post is taken in its
\* current revision, where the story is always narrated; the earlier
\* stories make no image.
AppSends ==
    {c \in [appRev : AppRevs, feature : {"daily_post", "create_story"},
            type : {"story_reel", "regular_post"}, theme : AppThemes,
            enableDailyPostTTS : BOOLEAN, enableStoryTTS : BOOLEAN,
            enableSongSuggestion : BOOLEAN,
            gen : {"throws"} \cup AppGenTexts, tts : {"throws"} \cup AudioParts,
            img : {"throws"} \cup EditedImages] :
        /\ (c.feature = "create_story" \/ c.type = "story_reel") => ~c.enableDailyPostTTS
        /\ c.feature = "create_story" => c.type = "story_reel"
        /\ c.feature = "daily_post" => c.appRev = "current"
        /\ (c.feature = "daily_post" \/ c.appRev = "current") => c.enableStoryTTS
        /\ c.feature = "daily_post" => ~c.enableSongSuggestion
        /\ (c.feature = "create_story" /\ c.appRev # "current") => c.img = "throws"}

HandleSendMessage ==
    /\ pc = "idle"
    /\ req.fn = "none"
    /\ \E c \in AppSends :
         LET appRev == c.appRev
             feature == c.feature
             type == c.type
             theme == c.theme
             enableDailyPostTTS == c.enableDailyPostTTS
             enableStoryTTS == c.enableStoryTTS
             enableSongSuggestion == c.enableSongSuggestion
             out == IF feature = "daily_post"
                    THEN dailyPost(type, theme, enableDailyPostTTS, c.gen, c.tts, c.img)
                    ELSE IF appRev = "current"
                    THEN createStory(theme, c.gen, c.tts, c.img)
                    ELSE createStoryEarlier(appRev, theme, enableStoryTTS,
                                            enableSongSuggestion, c.gen, c.tts)
         IN
         /\ req' = [fn |-> "app", method |-> feature, type |-> type, theme |-> theme,
                    tts |-> (feature = "create_story" \/ type = "story_reel" \/ enableDailyPostTTS),
                    appRev |-> appRev, enableStoryTTS |-> enableStoryTTS,
                    enableSongSuggestion |-> enableSongSuggestion]
         /\ messages' = out.messages
         /\ log' = out.calls
    /\ response' = NoResponse
    /\ i' = 0
    /\ ev' = NoEvent
    /\ L' = Locals("")
    /\ order' = <<>>
    /\ failed' = FALSE
    /\ lastWritten' = NoneWritten
    /\ UNCHANGED <<aside, config, handles, store, pc>>

\* ============================================================ specification
Next ==
    \/ WebhookGet
    \/ WebhookOtherMethod
    \/ WebhookPost
    \/ Connect
    \/ StartEvent
    \/ Insert
    \/ Classify
    \/ Generate
    \/ TTS
    \/ FetchImage
    \/ EditGenerate
    \/ FindOne
    \/ SendProgress
    \/ Publish
    \/ Unset
    \/ UpdateContext
    \/ SendReply
    \/ Catch
    \/ Finish
    \/ DataDeletion
    \/ HandleSendMessage

Spec == Init /\ [][Next]_vars

TypeOK ==
    /\ rev \in {1, 2}
    /\ env \in Envs
    /\ cachedDb \in BOOLEAN
    /\ cachedDbDeletion \in BOOLEAN
    /\ \A s \in Senders : incoming_messages[s] \in 0..MaxStored
    /\ pc \in {"idle", "loop", "connect", "insert", "classify", "generate", "tts",
               "fetchImage", "editGenerate", "findOne", "sendProgress", "publish",
               "unset", "updateContext", "sendReply", "catch"}
    /\ i \in 0..MaxBatch
    /\ failed \in BOOLEAN

\* ===================================================== functions by themselves
\* sendMessengerMessage and the two publish functions applied to arguments
\* of every shape, the caller's choice of arguments left open.
Pending == [pending |-> TRUE]
NoMessage == [sent |-> FALSE]

DataUri == "data:image/png;base64,iVBORw0KGgo"
HostedUrl == "https://cdn.example/media"
MediaUrls == {Undefined, DataUri, HostedUrl}

SendArgs ==
    [text : {"Here is your content"}, token : {Undefined, "EAAB"},
     imageUrl : MediaUrls, videoUrl : MediaUrls, audioUrl : MediaUrls,
     includeQuickReplies : BOOLEAN, offerPostConfirmation : BOOLEAN]

\* the message sendMessengerMessage hands to the Send API: the first
\* revision (lines 383-469) returns without sending when it has no token;
\* the pending-post revision (lines 703-737) never looks at videoUrl and
\* audioUrl
sendMessengerMessage(r, a) ==
    IF r = 1
    THEN IF ~Truthy(a.token) THEN NoMessage
         ELSE messageContent1(a.text, a.imageUrl, a.videoUrl, a.audioUrl,
                              a.includeQuickReplies)
    ELSE messageContent2(a.text, a.imageUrl, a.includeQuickReplies,
                         a.offerPostConfirmation)

\* the standalone publish function (part_001 8-113) on a POST with a JSON body
publishHandler(e, text, imageUrl, graph) ==
    IF ~Truthy(e["FB_PAGE_ACCESS_TOKEN"]) \/ ~Truthy(e["FB_PAGE_ID"])
    THEN PublishResult(FALSE, Undefined, "Facebook Page Access Token or Page ID not configured.")
    ELSE IF ~Truthy(text) /\ ~Truthy(imageUrl)
    THEN PublishResult(FALSE, Undefined, "No text or image content provided for publishing.")
    ELSE IF Truthy(imageUrl) /\ ~includes(imageUrl, ";base64,")
    THEN PublishResult(FALSE, Undefined, "Invalid image data URI format.")
    ELSE IF graph.threw THEN PublishResult(FALSE, Undefined, graph.error)
    ELSE IF ~graph.ok \/ Truthy(graph.error)
    THEN PublishResult(FALSE, Undefined,
                       OrElse(graph.error,
                              IF Truthy(imageUrl) THEN "Failed to upload image to Facebook."
                              ELSE "Failed to create text post on Facebook."))
    ELSE PublishResult(TRUE, graph.id, Undefined)

PublishArgs ==
    [env : {AllSet, [AllSet EXCEPT !["FB_PAGE_ID"] = Undefined]},
     text : {"Story A", ""}, imageUrl : {Undefined, DataUri, "iVBORw0KGgo"},
     graph : GraphResponses]

Calls ==
    {[fn |-> "sendMessengerMessage", impl |-> r, args |-> a, result |-> Pending] :
        r \in {"first", "pending-post"}, a \in SendArgs}
    \cup {[fn |-> "publish", impl |-> r, args |-> a, result |-> Pending] :
        r \in {"webhook", "function"}, a \in PublishArgs}

InitCall ==
    /\ Quiet
    /\ call \in Calls
    /\ race = NoRace
    /\ web = NoWeb

ApplySend ==
    /\ call.fn = "sendMessengerMessage" /\ call.result = Pending
    /\ call' = [call EXCEPT !.result =
                   sendMessengerMessage(IF call.impl = "first" THEN 1 ELSE 2, call.args)]
    /\ UNCHANGED <<main, race, web>>

ApplyPublish ==
    /\ call.fn = "publish" /\ call.result = Pending
    /\ call' = [call EXCEPT !.result =
                   IF call.impl = "webhook"
                   THEN publishToFacebookPage(call.args.env, call.args.text,
                                              call.args.imageUrl, call.args.graph)
                   ELSE publishHandler(call.args.env, call.args.text,
                                       call.args.imageUrl, call.args.graph)]
    /\ UNCHANGED <<main, race, web>>

NextCall ==
    \/ ApplySend
    \/ ApplyPublish

SpecCall == InitCall /\ [][NextCall]_vars

\* ------------------------------------------- two invocations, one sender
\* The pending-post revision run by two function invocations at once, each
\* with one messaging event: a ConfirmPost of sender "u1" (lines 609-630) and
\* a story request (lines 632-644, 679-686).  Each step is the code between
\* two awaits; the collection user_context is what they share.
Draft0 == PendingPost("Story 0", Undefined)
RaceStores == {<<>>, <<[senderId |-> "u1", pendingPost |-> Draft0]>>}

InitRace ==
    /\ rev = 2
    /\ env = AllSet
    /\ user_context \in RaceStores
    /\ AtRest
    /\ call = NoCall
    /\ web = NoWeb
    /\ \E s \in Senders :
         race = [on |-> TRUE,
                 confirm |-> [pc |-> "findOne", userContext |-> NoDoc, result |-> NoResult],
                 generate |-> [sender |-> s, pc |-> "generate", pendingPostPayload |-> NoPending],
                 published |-> {}, removed |-> {}]

RaceIdle == UNCHANGED <<rev, env, cachedDb, cachedDbDeletion, incoming_messages, pc, req,
                        response, i, ev, L, log, order, failed, lastWritten, messages,
                        connections, call, web>>

\* const userContext = await userContextCollection.findOne({ senderId })
\* (line 611) and the branch on userContext?.pendingPost (line 613)
ConfirmFindOne ==
    /\ race.on /\ race.confirm.pc = "findOne"
    /\ \E ok \in BOOLEAN :
         IF ok
         THEN LET userContext == findOne(user_context, "u1") IN
              race' = [race EXCEPT !.confirm.userContext = userContext,
                                   !.confirm.pc = IF pendingPostOf(userContext) # NoPending
                                                  THEN "sendProgress" ELSE "sendReply"]
         ELSE race' = [race EXCEPT !.confirm.pc = "catch"]
    /\ UNCHANGED user_context
    /\ RaceIdle

\* await sendMessengerMessage(senderId, "Publishing to your Page now...") (line 615)
ConfirmSendProgress ==
    /\ race.on /\ race.confirm.pc = "sendProgress"
    /\ \E outcome \in SendOutcomes :
         race' = [race EXCEPT !.confirm.pc = IF sendThrows(rev, outcome)
                                             THEN "catch" ELSE "publish"]
    /\ UNCHANGED user_context
    /\ RaceIdle

\* const result = await publishToFacebookPage(userContext.pendingPost.text,
\* userContext.pendingPost.imageUrl) and the branch on result.success
\* (lines 617-625)
ConfirmPublish ==
    /\ race.on /\ race.confirm.pc = "publish"
    /\ \E graph \in GraphResponses :
         LET pendingPost == pendingPostOf(race.confirm.userContext)
             result == publishToFacebookPage(env, pendingPost.text, pendingPost.imageUrl, graph)
         IN
         race' = [race EXCEPT !.confirm.result = result,
                              !.confirm.pc = IF clearsPendingPost(result)
                                             THEN "unset" ELSE "sendReply",
                              !.published = IF result.success THEN @ \cup {pendingPost} ELSE @]
    /\ UNCHANGED user_context
    /\ RaceIdle

\* await userContextCollection.updateOne({ senderId }, { $unset: { pendingPost: "" } })
\* (line 622)
ConfirmUnset ==
    /\ race.on /\ race.confirm.pc = "unset"
    /\ \E ok \in BOOLEAN :
         IF ok
         THEN LET stored == pendingPostOf(findOne(user_context, "u1")) IN
              /\ user_context' = updateOneUnset(user_context, "u1")
              /\ race' = [race EXCEPT !.confirm.pc = "sendReply",
                                      !.removed = IF stored # NoPending
                                                  THEN @ \cup {stored} ELSE @]
         ELSE /\ race' = [race EXCEPT !.confirm.pc = "catch"]
              /\ UNCHANGED user_context
    /\ RaceIdle

\* the reply of the ConfirmPost event (line 688), or the apology of its
\* catch block (line 692)
ConfirmSendReply ==
    /\ race.on /\ race.confirm.pc \in {"sendReply", "catch"}
    /\ race' = [race EXCEPT !.confirm.pc = "done"]
    /\ UNCHANGED user_context
    /\ RaceIdle

\* const storyRes = await ai.models.generateContent(..); the draft is the
\* generated text or its placeholder (lines 637-644)
StoryGenerate ==
    /\ race.on /\ race.generate.pc = "generate"
    /\ \E outcome \in {"throws"} \cup GenTexts :
         IF outcome = "throws"
         THEN race' = [race EXCEPT !.generate.pc = "catch"]
         ELSE race' = [race EXCEPT
                          !.generate.pendingPostPayload =
                              PendingPost(OrElse(outcome, "Could not generate text."), Undefined),
                          !.generate.pc = "updateContext"]
    /\ UNCHANGED user_context
    /\ RaceIdle

\* await userContextCollection.updateOne({ senderId }, { $set: { pendingPost } },
\* { upsert: true }) (lines 680-686)
StoryUpdateContext ==
    /\ race.on /\ race.generate.pc = "updateContext"
    /\ \E ok \in BOOLEAN :
         IF ok
         THEN /\ user_context' = updateOneSet(user_context, race.generate.sender,
                                              race.generate.pendingPostPayload)
              /\ race' = [race EXCEPT !.generate.pc = "sendReply"]
         ELSE /\ race' = [race EXCEPT !.generate.pc = "catch"]
              /\ UNCHANGED user_context
    /\ RaceIdle

\* the reply of the story event (line 688), or the apology of its catch
\* block (line 692)
StorySendReply ==
    /\ race.on /\ race.generate.pc \in {"sendReply", "catch"}
    /\ race' = [race EXCEPT !.generate.pc = "done"]
    /\ UNCHANGED user_context
    /\ RaceIdle

NextRace ==
    \/ ConfirmFindOne
    \/ ConfirmSendProgress
    \/ ConfirmPublish
    \/ ConfirmUnset
    \/ ConfirmSendReply
    \/ StoryGenerate
    \/ StoryUpdateContext
    \/ StorySendReply

SpecRace == InitRace /\ [][NextRace]_vars

\* ---------------------------------------------- the web client's busy flags
\* App.tsx keeps isLoading, isPosting and isPublishingToFacebook; web counts
\* the handler invocations waiting at each await (the generation call, the
\* two-second posting timer, the publish fetch) and how the last one ended.
MaxHandled == 4
WebFeatures == {"CHAT", "EDIT_IMAGE", "DAILY_POST", "CREATE_STORY", "SCHEDULE_POST",
                "DATA_MANAGEMENT"}
\* the messages a publish button can belong to, and the one without content
\* that only a direct call can pass
WebMessages ==
    [role : {"bot", "user"}, error : BOOLEAN, content : {"", "Story A"},
     imageUrl : {Undefined, DataUri}]

InitWeb ==
    /\ Quiet
    /\ call = NoCall
    /\ race = NoRace
    /\ web = [on |-> TRUE, isLoading |-> FALSE, isPosting |-> FALSE,
              isPublishingToFacebook |-> FALSE,
              generating |-> 0, posting |-> 0, publishing |-> 0,
              currentFeature |-> "CHAT", handled |-> 0, last |-> "none"]

\* mutant: the guard does not look at isPublishingToFacebook
busyIgnoresPublishing(w) == w.isLoading \/ w.isPosting

\* isLoading || isPosting || isPublishingToFacebook (App.tsx 168, 730)
busy(w) == w.isLoading \/ w.isPosting \/ w.isPublishingToFacebook

\* handleSendMessage up to its first await (App.tsx 167-262): the guard, the
\* validation returns, the scheduling branch (which runs to its finally
\* without awaiting) and setIsLoading(true) before the generation call
handleSendMessageStart(w, currentFeature, input, selectedImage, selected, valid) ==
    IF busy(w) THEN w
    ELSE IF currentFeature \notin {"DAILY_POST", "SCHEDULE_POST", "CREATE_STORY",
                                   "DATA_MANAGEMENT"} /\ trim(input) = ""
    THEN [w EXCEPT !.last = "returned", !.currentFeature = currentFeature,
                   !.handled = @ + 1]
    ELSE IF currentFeature = "SCHEDULE_POST"
    THEN IF ~selected
         THEN [w EXCEPT !.last = "returned", !.currentFeature = currentFeature,
                        !.handled = @ + 1]
         ELSE [w EXCEPT !.isLoading = FALSE,
                        !.last = IF valid THEN "scheduled" ELSE "schedule failed",
                        !.currentFeature = currentFeature, !.handled = @ + 1]
    ELSE IF currentFeature = "DATA_MANAGEMENT"
    THEN [w EXCEPT !.last = "returned", !.currentFeature = currentFeature,
                   !.handled = @ + 1]
    ELSE IF currentFeature = "EDIT_IMAGE" /\ ~selectedImage
    THEN [w EXCEPT !.isLoading = FALSE, !.isPosting = FALSE, !.last = "returned",
                   !.currentFeature = currentFeature, !.handled = @ + 1]
    ELSE [w EXCEPT !.isLoading = TRUE, !.generating = @ + 1, !.last = "started",
                   !.currentFeature = currentFeature, !.handled = @ + 1]

\* the generation call settles (App.tsx 243-380): a generated message starts
\* the simulated posting, chat and a thrown error go to the finally block
generationSettled(w, outcome) ==
    IF outcome = "ok" /\ w.currentFeature # "CHAT"
    THEN [w EXCEPT !.isLoading = FALSE, !.isPosting = TRUE,
                   !.generating = @ - 1, !.posting = @ + 1, !.last = "posting"]
    ELSE [w EXCEPT !.isLoading = FALSE, !.isPosting = FALSE, !.generating = @ - 1,
                   !.last = IF outcome = "ok" THEN "answered" ELSE "threw"]

\* the posting timer fires (App.tsx 365-380)
postingSettled(w) ==
    [w EXCEPT !.isLoading = FALSE, !.isPosting = FALSE, !.posting = @ - 1,
              !.last = "posted"]

\* handlePublishToFacebook up to its fetch (App.tsx 110-131)
handlePublishToFacebookStart(w, message) ==
    IF ~Truthy(message.content) /\ ~Truthy(message.imageUrl)
    THEN [w EXCEPT !.last = "publish rejected", !.handled = @ + 1]
    ELSE [w EXCEPT !.isPublishingToFacebook = TRUE, !.publishing = @ + 1,
                   !.last = "publish started", !.handled = @ + 1]

\* the publish button (MessageBubble.tsx 17-23, App.tsx 729-730)
handlePublishClick(w, message) ==
    LET canPublish == /\ message.role = "bot" /\ ~message.error
                      /\ (Truthy(message.content) \/ Truthy(message.imageUrl))
        isPublishingDisabled == busy(w)
    IN IF canPublish /\ ~isPublishingDisabled
       THEN handlePublishToFacebookStart(w, message) ELSE w

\* the publish fetch settles (App.tsx 133-164)
publishSettled(w, outcome) ==
    [w EXCEPT !.isPublishingToFacebook = FALSE, !.publishing = @ - 1,
              !.last = IF outcome = "ok" THEN "published" ELSE "publish failed"]

WebSend ==
    /\ web.on /\ web.handled < MaxHandled
    /\ \E currentFeature \in WebFeatures, input \in {"", "  ", "hello"},
          selectedImage \in BOOLEAN, selected \in BOOLEAN, valid \in BOOLEAN :
         web' = handleSendMessageStart(web, currentFeature, input, selectedImage,
                                       selected, valid)
    /\ UNCHANGED <<main, call, race>>

WebGenerationSettles ==
    /\ web.on /\ web.generating > 0
    /\ \E outcome \in {"ok", "throws"} : web' = generationSettled(web, outcome)
    /\ UNCHANGED <<main, call, race>>

WebPostingSettles ==
    /\ web.on /\ web.posting > 0
    /\ web' = postingSettled(web)
    /\ UNCHANGED <<main, call, race>>

WebPublishClick ==
    /\ web.on /\ web.handled < MaxHandled
    /\ \E message \in WebMessages : web' = handlePublishClick(web, message)
    /\ UNCHANGED <<main, call, race>>

WebPublishSettles ==
    /\ web.on /\ web.publishing > 0
    /\ \E outcome \in {"ok", "fails"} : web' = publishSettled(web, outcome)
    /\ UNCHANGED <<main, call, race>>

NextWeb ==
    \/ WebSend
    \/ WebGenerationSettles
    \/ WebPostingSettles
    \/ WebPublishClick
    \/ WebPublishSettles

SpecWeb == InitWeb /\ [][NextWeb]_vars

\* ================================================================ claims
HasEffect(kind) == \E k \in 1..Len(log) : log[k].kind = kind
CountEffects(kind) == Cardinality({k \in 1..Len(log) : log[k].kind = kind})

\* the PendingPost documents stored for a sender
PendingIndexes(coll, s) ==
    {k \in 1..Len(coll) : coll[k].senderId = s /\ coll[k].pendingPost # NoPending}
StoredPending(s) == pendingPostOf(findOne(user_context, s))

\* a ConfirmPost event of the pending-post revision
ConfirmEvent == rev = 2 /\ L.intent = "confirm_post"
\* ... whose findOne returned, and the PendingPost it read
WasRead == HasEffect("findOne")
ReadPending == pendingPostOf(L.userContext)
PublishReported == L.result # NoResult
\* the try block of the event is over: its reply was handed to the Send API
EventOver == pc \in {"loop", "catch"} /\ i > 0 /\ L.intent # "none"

SentText(text) ==
    \E k \in 1..Len(log) :
        log[k].kind = "send" /\ log[k].sender = ev.sender /\ log[k].text = text

\* C1: while a ConfirmPost event of a sender with a PendingPost is processed,
\* the PendingPost is gone from the store only if publish reported success;
\* if publish reported failure, the stored PendingPost is still the one that
\* was read, and once the event is over the reply carrying the vendor's
\* failure has been handed to the Send API for that sender.
C1_ClearedOnlyOnSuccess ==
    (ConfirmEvent /\ WasRead /\ ReadPending # NoPending) =>
        /\ StoredPending(ev.sender) = NoPending =>
              (PublishReported /\ L.result.success)
        /\ (PublishReported /\ ~L.result.success) =>
              /\ StoredPending(ev.sender) = ReadPending
              /\ EventOver => SentText(FailedToPostText(L.result.error))

\* a publish failure has been reported to a sender whose PendingPost stays
C1_Witness ==
    /\ ConfirmEvent /\ pc = "loop"
    /\ PublishReported /\ ~L.result.success
    /\ StoredPending(ev.sender) # NoPending
    /\ SentText(FailedToPostText(L.result.error))

\* C2 (as claimed): when a ConfirmPost event is over, the number of publish
\* calls made for it is 1 if a PendingPost was read and 0 if none was, and
\* when none was the 'nothing pending' reply, with quick replies, was handed
\* to the Send API.
C2_PublishExactlyOnce ==
    (ConfirmEvent /\ WasRead /\ pc = "loop") =>
        /\ CountEffects("publish") = (IF ReadPending # NoPending THEN 1 ELSE 0)
        /\ ReadPending = NoPending => SentText(NothingPendingText)

\* C3: no sender ever has two PendingPosts; a write of a generated draft
\* leaves exactly that draft as the sender's PendingPost and leaves the
\* documents of every other sender as they were.
C3_OnePendingPerSender ==
    [][/\ \A s \in Senders : Cardinality(PendingIndexes(user_context', s)) <= 1
       /\ (pc = "updateContext" /\ user_context' # user_context) =>
             /\ \E k \in 1..Len(user_context') :
                    /\ PendingIndexes(user_context', ev.sender) = {k}
                    /\ user_context'[k].pendingPost = L.pendingPostPayload
             /\ \A s \in Senders \ {ev.sender} :
                    /\ Cardinality(Matches(user_context', s)) = Cardinality(Matches(user_context, s))
                    /\ StoredPending(s)' = StoredPending(s)
      ]_vars

\* a sender's PendingPost has just been replaced while another sender has one
C3_Witness ==
    /\ rev = 2 /\ pc = "sendReply"
    /\ log # <<>> /\ log[Len(log)].kind = "setPending" /\ log[Len(log)].ok = "replaced"
    /\ StoredPending(ev.sender) = L.pendingPostPayload
    /\ \E s \in Senders \ {ev.sender} : StoredPending(s) # NoPending

\* the webhook handler has settled a POST delivery, by returning or rejecting
PostSettled == pc = "idle" /\ req.fn = "webhook" /\ req.method = "POST"
RequiredConfigPresent ==
    Truthy(env["API_KEY"]) /\ Truthy(env["FB_PAGE_ACCESS_TOKEN"]) /\ Truthy(env["MONGODB_URI"])
\* a batch that reaches the loop
PageBatch ==
    /\ PostSettled /\ RequiredConfigPresent /\ ~verifyTokenMissing(rev, env)
    /\ req.body.parses /\ req.body.object = "page"

\* C4 (as claimed): when the handler has settled a page batch in which the
\* processing of some event failed, every event of the batch was attempted.
C4_FailureDoesNotStopBatch ==
    (PageBatch /\ failed) => i = req.body.n

\* C5 (as claimed): a page batch delivered with the required configuration
\* present is always settled by the response 200 'EVENT_RECEIVED'.
C5_AlwaysAcknowledged ==
    PageBatch => response = Response(200, "EVENT_RECEIVED")

\* C6: the effects of a delivery occur in the order of its events, all
\* effects of one event before any effect of the next, and a ConfirmPost
\* that publishes after a draft was stored for its sender earlier in the
\* same delivery publishes exactly that draft.
C6_InOrderOneAtATime ==
    /\ \A k \in 1..Len(order) : order[k] <= i
    /\ \A k \in 1..(Len(order) - 1) : order[k] < order[k + 1]
    /\ (ConfirmEvent /\ lastWritten[ev.sender] # NoPending) =>
          \A k \in 1..Len(log) :
              log[k].kind = "publish" =>
                  /\ log[k].text = lastWritten[ev.sender].text
                  /\ log[k].image = lastWritten[ev.sender].imageUrl

\* the second event of a delivery published what its first event stored
C6_Witness ==
    /\ ConfirmEvent /\ i = 2 /\ order = <<1, 2>>
    /\ lastWritten[ev.sender] # NoPending
    /\ HasEffect("publish")

ErasureUser(sr) ==
    IF Len(sr) = 2 /\ sr[1] = Hmac(EnvValue("FB_APP_SECRET"), sr[2])
       /\ JSONparsePayload(sr[2]) # NullPayload
    THEN JSONparsePayload(sr[2]).user_id
    ELSE Undefined

ErasureConfigPresent == Truthy(env["FB_APP_SECRET"]) /\ Truthy(env["MONGODB_URI"])
ErasureSettled == pc = "idle" /\ req.fn = "deletion" /\ req.method = "POST"
ConfirmationFor(u) == "{url, confirmation_code: deleted-" \o u \o "}"

\* C8 (as claimed): a settled erasure request whose signed_request proves a
\* user id has status 200 and none of that user's inbound messages is left;
\* any other erasure request has status 403 and deleted nothing.
C8_AsClaimed ==
    (ErasureSettled /\ ErasureConfigPresent) =>
        LET U == ErasureUser(req.body.signed_request) IN
        IF U # Undefined
        THEN response.statusCode = 200 /\ incoming_messages[U] = 0
        ELSE response.statusCode = 403 /\ log = <<>>

\* C8 (amended): with the app secret and the datastore URI configured, a POST
\* erasure request whose body does not parse or has no signed_request gets
\* 400; one whose signed_request does not prove a user id gets 403; one that
\* proves user id U gets either 200 with the confirmation code of U, all
\* inbound messages of U deleted and those of every other sender kept, or
\* 500 when a store call fails; except in the 200 case no inbound message
\* is deleted.
C8_Erasure ==
    [][(pc = "idle" /\ req'.fn = "deletion" /\ req'.method = "POST"
          /\ ErasureConfigPresent) =>
          LET b == req'.body
              U == ErasureUser(b.signed_request)
          IN
          IF ~b.parses \/ b.signed_request = <<>>
          THEN response'.statusCode = 400 /\ incoming_messages' = incoming_messages
          ELSE IF U = Undefined
          THEN response'.statusCode = 403 /\ incoming_messages' = incoming_messages
          ELSE \/ /\ response' = Response(200, ConfirmationFor(U))
                  /\ incoming_messages' = [incoming_messages EXCEPT ![U] = 0]
               \/ /\ response'.statusCode = 500
                  /\ incoming_messages' = incoming_messages
      ]_vars

\* an erasure deleted the inbound messages of one user and kept another's
C8_Witness ==
    /\ ErasureSettled /\ response.statusCode = 200
    /\ log # <<>> /\ log[1].kind = "deleteMany" /\ log[1].ok = "deleted some"
    /\ incoming_messages[log[1].sender] = 0
    /\ \E s \in Senders : incoming_messages[s] > 0

\* C9 (as claimed): once an erasure request for U has been answered 200, the
\* store holds neither an inbound message nor a PendingPost of U.
C9_NothingKeptAfterErasure ==
    (ErasureSettled /\ response.statusCode = 200) =>
        LET U == ErasureUser(req.body.signed_request) IN
        /\ incoming_messages[U] = 0
        /\ StoredPending(U) = NoPending

\* C10 (as claimed): a settled request of another method than GET or POST has
\* status 405; a settled POST has status 500 when the API key, the page
\* token or the datastore URI is unset, and otherwise 400 when its body does
\* not parse or is not a page object.
C10_AsClaimed ==
    (pc = "idle" /\ req.fn = "webhook" /\ req.method # "GET") =>
        IF req.method # "POST" THEN response.statusCode = 405
        ELSE IF ~RequiredConfigPresent THEN response.statusCode = 500
        ELSE (~req.body.parses \/ req.body.object # "page") => response.statusCode = 400

\* the status of the exits the handler takes before its batch loop for a
\* request that is not a GET, 0 when it takes none
ExpectedExit(request) ==
    IF rev = 1 /\ ~Truthy(env["FB_VERIFY_TOKEN"]) THEN 500
    ELSE IF request.method # "POST" THEN 405
    ELSE IF ~RequiredConfigPresent THEN 500
    ELSE IF ~request.body.parses \/ request.body.object # "page" THEN 400
    ELSE 0

\* C10 (amended): the first revision answers every request 500 when the verify
\* secret is unset; otherwise any method other than GET or POST gets 405, a
\* POST gets 500 when the API key, the page token or the datastore URI is
\* unset, and otherwise 400 when its body does not parse or is not a page
\* object; in each of these cases the handler returns at once: no event is
\* taken, no store or handle changes, no call is made and nothing is sent.
C10_EarlyExits ==
    [][(pc = "idle" /\ req'.fn = "webhook" /\ req'.method # "GET"
          /\ ExpectedExit(req') # 0) =>
          /\ response'.statusCode = ExpectedExit(req')
          /\ pc' = "idle" /\ i' = 0 /\ log' = <<>> /\ order' = <<>>
          /\ store' = store /\ handles' = handles
      ]_vars

\* the first revision answered 500 to a PUT or DELETE: its secret is unset
C10_Witness ==
    /\ pc = "idle" /\ req.fn = "webhook" /\ req.method \in {"PUT", "DELETE"}
    /\ rev = 1 /\ ~Truthy(env["FB_VERIFY_TOKEN"])
    /\ response.statusCode = 500

\* a required generation call of the event being processed has thrown
GenerationFailed ==
    \E k \in 1..Len(log) :
        /\ log[k].kind \in {"generateContent", "editImage"}
        /\ log[k].sender \in Senders
        /\ log[k].ok = "throws"

ErrorReplyTexts == {ApologyText1, ApologyText2, FailedToEditText}

\* C11: once the text-generation or image-edit call of an event has thrown,
\* no step changes a collection, so the inbound message inserted for the
\* event stays stored; the event has written and cleared no PendingPost; and
\* when the event is over, an error reply has been handed to the Send API
\* for its sender.
C11_FailedGenerationKeepsEffects ==
    [][GenerationFailed =>
          /\ store' = store
          /\ ~HasEffect("setPending") /\ ~HasEffect("unsetPending")
          /\ rev = 1 => (HasEffect("insertOne") /\ incoming_messages'[ev.sender] > 0)
          /\ pc' = "loop" =>
                \E k \in 1..Len(log') :
                    /\ log'[k].kind = "send" /\ log'[k].sender = ev.sender
                    /\ log'[k].text \in ErrorReplyTexts
      ]_vars

\* the generation call of an event threw after its message was inserted,
\* and the apology was sent
C11_Witness ==
    /\ rev = 1 /\ pc = "loop" /\ GenerationFailed
    /\ HasEffect("insertOne") /\ incoming_messages[ev.sender] > 0
    /\ SentText(ApologyText1)

\* the event just processed by the first revision got its connection, and
\* its insertOne into incoming_messages threw
InsertThrew ==
    /\ rev = 1 /\ pc = "loop" /\ i > 0
    /\ cachedDb /\ ~HasEffect("insertOne")

\* C12: a failure of the audit insert of an event is swallowed: the event
\* is still classified and is answered with its normal reply, not with the
\* error reply.
C12_InsertFailureSwallowed ==
    InsertThrew =>
        /\ L.intent # "none"
        /\ ~SentText(ApologyText1)
        /\ \E k \in 1..Len(log) : log[k].kind = "send" /\ log[k].text # ApologyText1

\* ---- the classification the specification describes
PostNowPhrases == {"post now", "publish this", "share this", "make it live"}
QuickReplyValues == {"chat", "edit image", "daily post"}

SaysPostNow(lc) == \E p \in PostNowPhrases : includes(lc, p)
SaysDailyPost(lc) ==
    /\ includes(lc, "post")
    /\ \/ includes(lc, "story") \/ includes(lc, "reel")
       \/ includes(lc, "daily post") \/ includes(lc, "generate post")
SaysEditImage(e, lc) == startsWith(lc, "edit this image:") /\ Len(e.attachments) > 0
SaysConfirm(e, lc) == lc = "yes, post it" \/ e.quick_reply = "CONFIRM_POST"
SaysSchedule(lc) == includes(lc, "schedule post")

\* first match in the order post-now, daily-post, edit-image, confirmation,
\* schedule, quick-reply value, chat
ClaimedIntent(e) ==
    LET lc == toLowerCase(e.text) IN
    IF SaysPostNow(lc) THEN "post_now"
    ELSE IF SaysDailyPost(lc) THEN "daily_post"
    ELSE IF SaysEditImage(e, lc) THEN "edit_image"
    ELSE IF SaysConfirm(e, lc) THEN "confirm_post"
    ELSE IF SaysSchedule(lc) THEN "schedule_help"
    ELSE IF lc = "chat" THEN "chat_prompt"
    ELSE IF lc = "edit image" THEN "edit_image_prompt"
    ELSE IF lc = "daily post" THEN "daily_post_prompt"
    ELSE "chat"

\* the event being processed carries text and has been classified
Classified == i > 0 /\ ev # NoEvent /\ Truthy(ev.text) /\ L.intent # "none"
\* no step of the event threw before the image-edit call
NothingThrewBeforeEdit ==
    \A k \in 1..Len(log) : log[k].kind # "editImage" => log[k].ok # "throws"

\* an edit command with an image attached that no earlier pattern claims
EditCommand ==
    /\ Classified /\ pc = "loop"
    /\ ClaimedIntent(ev) = "edit_image"
    /\ ev.attachments[1].type = "image"
    /\ NothingThrewBeforeEdit
ClaimedEditPrompt == trim(substring(ev.text, Len("edit this image:")))

\* C13: an edit command with an image attached leads to exactly one
\* image-edit call, whose prompt is the trimmed remainder of the text, when
\* that remainder is not empty; with an empty remainder no image-edit call
\* is made and the sender is asked for an edit prompt.
C13_EditPrompt ==
    EditCommand =>
        IF ClaimedEditPrompt # ""
        THEN /\ CountEffects("editImage") = 1
             /\ \A k \in 1..Len(log) :
                    log[k].kind = "editImage" => log[k].text = ClaimedEditPrompt
        ELSE /\ ~HasEffect("editImage")
             /\ SentText(AskEditPromptText)

\* C14: every classified message runs the workflow of the first pattern it
\* matches in the order post-now, daily-post, edit-image with attachment,
\* confirmation, schedule, quick-reply value, chat.
C14_FirstMatchWins ==
    Classified => L.intent = ClaimedIntent(ev)

\* text that matches none of the recognised patterns
MatchesNoPattern == Classified /\ ClaimedIntent(ev) = "chat"

CannedPrompt(lc) ==
    CASE lc = "chat" -> ChatPromptText
      [] lc = "edit image" -> EditPromptText
      [] lc = "daily post" -> DailyPromptText

\* C16: a message whose text is exactly a feature's quick-reply value is
\* answered with that feature's canned prompt, and no generation call is
\* made for it.
C16_QuickReplyValue ==
    (Classified /\ pc = "loop" /\ toLowerCase(ev.text) \in QuickReplyValues) =>
        /\ SentText(CannedPrompt(toLowerCase(ev.text)))
        /\ ~HasEffect("generateContent") /\ ~HasEffect("editImage")
        /\ ~HasEffect("generateSpeech")

\* the first entry of the ordered theme list that occurs in the text
ClaimedTheme(lc) ==
    IF includes(lc, "inspirational") THEN "inspirational"
    ELSE IF includes(lc, "sad") THEN "sad"
    ELSE IF includes(lc, "storytelling") THEN "storytelling"
    ELSE IF includes(lc, "funny") THEN "funny"
    ELSE "inspirational"

\* how the prompt of a daily-post generation call leads up to its theme
PromptLeads == {"Generate a short ", "Generate a detailed ", "Generate a "}

\* C17: the theme a daily-post request is generated for is the first entry
\* of [inspirational, sad, storytelling, funny] occurring in the lower-cased
\* text, inspirational when none occurs.
C17_ThemeFromText ==
    (Classified /\ L.intent = "daily_post") =>
        \A k \in 1..Len(log) :
            log[k].kind = "generateContent" =>
                \E lead \in PromptLeads :
                    startsWith(log[k].text,
                               lead \o ClaimedTheme(toLowerCase(ev.text)) \o " ")

\* C18: a classified message containing a post-now phrase is answered with
\* the platform-limits explanation; no publish call is made for it and it
\* writes and clears no PendingPost, whatever else its text matches.
C18_PostNowOnlyExplains ==
    (Classified /\ pc = "loop" /\ SaysPostNow(toLowerCase(ev.text))) =>
        /\ SentText(PostNowText)
        /\ ~HasEffect("generateContent") /\ ~HasEffect("publish")
        /\ ~HasEffect("setPending") /\ ~HasEffect("unsetPending")

\* ---- story reels with speech
\* the first revision answered a story_reel request that asked for speech,
\* and the text generation of the request did not throw
ReelAnswered ==
    /\ rev = 1 /\ pc = "loop" /\ Classified /\ L.intent = "daily_post"
    /\ TypeOf(toLowerCase(ev.text)) = "story_reel"
    /\ EnableTTS(toLowerCase(ev.text))
    /\ \E k \in 1..Len(log) : log[k].kind = "generateContent" /\ log[k].ok = "ok"
ReelReply == log[Len(log)]

\* the browser app has handled a send of the given feature and type
AppHandled(feature, type) ==
    /\ pc = "idle" /\ req.fn = "app" /\ req.appRev = "current"
    /\ req.method = feature /\ req.type = type
FinalMessage == messages[Len(messages)]
AppTextSucceeded == log # <<>> /\ log[1].kind = "generateContent" /\ log[1].ok = "ok"
MentionsAudio(content) ==
    \/ includes(toLowerCase(content), "audio")
    \/ includes(toLowerCase(content), "voice")

\* C19: the response to a story_reel request with speech has non-empty text
\* and either audio or a note explaining its absence.
C19_AudioOrNote ==
    /\ ReelAnswered =>
          /\ ReelReply.kind = "send" /\ Truthy(ReelReply.text)
          /\ L.botAudioUrl # Undefined \/ includes(ReelReply.text, "(Note:")
    /\ (AppHandled("daily_post", "story_reel") /\ FinalMessage.error = Undefined) =>
          /\ Truthy(FinalMessage.content)
          /\ FinalMessage.audioUrl # Undefined \/ MentionsAudio(FinalMessage.content)

\* an optional step (speech or image) of the send failed after its text
\* generation succeeded
OptionalStepFailed ==
    /\ AppTextSucceeded
    /\ \E k \in 2..Len(log) :
          log[k].kind \in {"generateSpeech", "generateImage"} /\ log[k].ok = "throws"
\* the generated text, as handed to the speech call, up to a song suggestion
GeneratedStory ==
    LET text == log[2].text
        at == songMatch(text)
    IN  IF at = 0 THEN text ELSE trim(SubSeq(text, 1, at - 1))
Explains(content) ==
    \/ includes(toLowerCase(content), "note")
    \/ includes(toLowerCase(content), "could not")
    \/ includes(toLowerCase(content), "failed")

\* C20: when an optional step of a story_reel or CreateStory send fails
\* after the text succeeded, the send does not fail: the generated text is
\* delivered, with a note about the step that failed.
C20_OptionalStepFailure ==
    (/\ AppHandled("daily_post", "story_reel") \/ AppHandled("create_story", "story_reel")
     /\ OptionalStepFailed) =>
        /\ FinalMessage.error = Undefined
        /\ includes(FinalMessage.content, GeneratedStory)
        /\ Explains(FinalMessage.content)

\* a CreateStory send of the app, in any of its revisions, whose text
\* generation succeeded
StoryHandled ==
    /\ pc = "idle" /\ req.fn = "app" /\ req.method = "create_story"
    /\ AppTextSucceeded

\* C21: in CreateStory the speech call is issued exactly when narration is
\* requested (the generated text being non-empty), after the text call and
\* at most once, whether or not a song suggestion was requested.
C21_SpeechWhenNarrated ==
    StoryHandled =>
        /\ HasEffect("generateSpeech") <=> req.enableStoryTTS
        /\ CountEffects("generateSpeech") <= 1
        /\ \A k \in 1..Len(log) :
               log[k].kind = "generateSpeech" => (k > 1 /\ Truthy(log[k].text))

\* sendMessengerMessage was applied to exactly one medium, an inline data URI
SentInline(kind) ==
    /\ call.fn = "sendMessengerMessage" /\ call.result \notin {Pending, NoMessage}
    /\ \A k \in {"imageUrl", "videoUrl", "audioUrl"} :
           call.args[k] = (IF k = kind THEN DataUri ELSE Undefined)

\* C22: when the one medium to deliver is an inline data URI, of whichever
\* kind, the message carries no attachment and its text is the reply text
\* followed by a note that the medium could not be sent directly and that
\* points to the web app.
C22_InlineMediaNoted ==
    \A kind \in {"imageUrl", "videoUrl", "audioUrl"} :
        SentInline(kind) =>
            /\ call.result.attachment = NoAttachment
            /\ startsWith(call.result.text, call.args.text)
            /\ includes(call.result.text, "could not be sent directly")
            /\ includes(call.result.text, "web app")

\* the quick replies of a logged send offer the confirm-and-publish shortcut
OffersConfirm(entry) ==
    \E q \in 1..Len(entry.quick) : entry.quick[q] = "CONFIRM_POST"

\* C23: the reply of an event that has just stored a PendingPost carries
\* quick replies of which the confirm-and-publish shortcut is the first, and
\* a message of an event that stored none (its error reply included) never
\* offers the shortcut.
C23_ConfirmShortcutFirst ==
    /\ \A j \in 1..Len(log) :
           log[j].kind = "setPending" =>
               /\ j = Len(log) => pc = "sendReply"
               /\ j < Len(log) =>
                      /\ log[j + 1].kind = "send"
                      /\ log[j + 1].quick # <<>>
                      /\ log[j + 1].quick[1] = "CONFIRM_POST"
    /\ \A k \in 1..Len(log) :
           (log[k].kind = "send" /\ OffersConfirm(log[k])) =>
               (k > 1 /\ log[k - 1].kind = "setPending")

\* a generated post was stored and its reply offered the shortcut first
C23_Witness ==
    /\ rev = 2 /\ pc = "loop" /\ L.intent = "daily_post"
    /\ HasEffect("setPending")
    /\ log[Len(log)].kind = "send" /\ log[Len(log)].quick[1] = "CONFIRM_POST"

\* a publish function ran with its credentials and content in place and
\* the Graph API answered
PublishAnswered ==
    /\ call.fn = "publish" /\ call.result # Pending
    /\ call.args.env = AllSet
    /\ Truthy(call.args.text) /\ call.args.imageUrl \in {Undefined, DataUri}
    /\ ~call.args.graph.threw

\* C24: a non-2xx answer, and a 2xx answer whose body has an error field,
\* is reported as a failure without postId, the vendor's message passed on
\* unchanged; success with the postId is reported only for a 2xx answer
\* without an error field.
C24_PublishReportsFailure ==
    PublishAnswered =>
        LET graph == call.args.graph
            result == call.result
        IN  /\ (~graph.ok \/ Truthy(graph.error)) =>
                   /\ ~result.success /\ result.postId = Undefined
                   /\ Truthy(graph.error) => result.error = graph.error
            /\ result.success =>
                   (graph.ok /\ ~Truthy(graph.error) /\ result.postId = graph.id)

\* C25: in each function's process at most one connection is ever
\* established, and it is the cached one; once a handle is cached it stays
\* and no step connects again; connections are opened by calls of
\* connectToDatabase only; and a call of the webhook that fails caches
\* nothing and raises (the event's catch, or the handler's rejection), so
\* that the next call tries again.
C25_OneConnectionPerProcess ==
    [][/\ connections'.webhook = (IF cachedDb' THEN 1 ELSE 0)
       /\ connections'.deletion = (IF cachedDbDeletion' THEN 1 ELSE 0)
       /\ cachedDb => (cachedDb' /\ connections'.webhook = connections.webhook)
       /\ cachedDbDeletion =>
              (cachedDbDeletion' /\ connections'.deletion = connections.deletion)
       /\ connections'.webhook # connections.webhook => pc = "connect"
       /\ connections'.deletion # connections.deletion => req'.fn = "deletion"
       /\ (pc = "connect" /\ ~cachedDb') => (pc' = "catch" \/ response' = Rejected)
      ]_vars

\* the second event of a delivery got the handle the first event's call
\* had cached: two calls, one connection
C25_Witness ==
    /\ rev = 1 /\ i = 2 /\ pc = "insert" /\ ~failed
    /\ cachedDb /\ connections.webhook = 1

\* C27: with FB_VERIFY_TOKEN not configured no GET request is answered 200
\* and none has its challenge echoed.
C27_NoHandshakeWithoutSecret ==
    (/\ pc = "idle" /\ req.fn = "webhook" /\ req.method = "GET"
     /\ ~Truthy(env["FB_VERIFY_TOKEN"])) =>
        /\ response.statusCode # 200
        /\ response.body # req.query.challenge

\* content the generation backend returned: a non-empty generated text, or
\* an edited image part
FromBackend(pendingPost) ==
    \/ pendingPost.imageUrl = Undefined /\ pendingPost.text \in GenTexts \ {""}
    \/ /\ pendingPost.imageUrl # Undefined
       /\ \E part \in EditedImages \ {Undefined} :
              pendingPost.imageUrl = "data:image/png;base64," \o part

\* C28: every stored PendingPost holds content the generation backend
\* returned, and so does everything a ConfirmPost publishes.
C28_OnlyGeneratedContentStored ==
    /\ \A k \in 1..Len(user_context) :
           user_context[k].pendingPost # NoPending =>
               FromBackend(user_context[k].pendingPost)
    /\ \A k \in 1..Len(log) :
           log[k].kind = "publish" =>
               FromBackend(PendingPost(log[k].text, log[k].image))

\* C29: every message handed to the Send API for an event carries
\* non-empty text or an attachment.
C29_NoEmptyMessage ==
    \A k \in 1..Len(log) :
        (log[k].kind = "send" /\ log[k].sender \in Senders) =>
            (Truthy(log[k].text) \/ Truthy(log[k].image))

\* C26: with a ConfirmPost and a generation of the same sender running at
\* once, every PendingPost removed from the store is one whose own content
\* was published: a draft written between the ConfirmPost's read and its
\* clearing step is never deleted unpublished.
C26_RemovedOnlyIfPublished ==
    race.on => \A pendingPost \in race.removed : pendingPost \in race.published

\* C30: in the web client at most one generation, scheduling or publish
\* request is in flight at a time, isLoading and isPosting are false whenever
\* no handleSendMessage invocation is running, and isPublishingToFacebook is
\* false whenever no handlePublishToFacebook invocation is running.
C30_OneRequestAndFlagsReset ==
    web.on =>
      /\ web.generating + web.posting + web.publishing <= 1
      /\ (web.generating + web.posting = 0 => ~web.isLoading /\ ~web.isPosting)
      /\ (web.publishing = 0 => ~web.isPublishingToFacebook)

\* an invocation of handleSendMessage has ended by a thrown error, not the
\* first invocation of the session, and both flags are false again
C30_Witness ==
    /\ web.on /\ web.last = "threw" /\ web.handled >= 2
    /\ ~web.isLoading /\ ~web.isPosting

====
